---- MODULE Spec2Model ----
(***************************************************************************)
(* Model of the Aether event channel (aether_shm.py): one writer-role      *)
(* AetherSharedMemory (the audio daemon) and several reader-role           *)
(* AetherSharedMemory objects (visualizer, RGB controller, client) over    *)
(* one memory-mapped region, plus the legacy fallback file.                *)
(*                                                                         *)
(* Every access to the mapped region made by one call of mmap.read or      *)
(* mmap.write is one step; the steps of the publisher and of every         *)
(* subscriber interleave freely.                                           *)
(***************************************************************************)
EXTENDS Integers, Sequences, FiniteSets, TLC

(***************************************************************************)
(* Bounds of the model.                                                    *)
(***************************************************************************)
\* payload capacity of the region in bytes (SHM_SIZE - HEADER_SIZE, scaled)
MaxPayload == 4
\* number of write_event calls explored in one publisher lifetime
MaxPublishes == 2

(***************************************************************************)
(* Protocol constants (aether_shm.py:42-54).                               *)
(***************************************************************************)
MAGIC == "AEHR"
VERSION == 1
MAX_PAYLOAD_SIZE == MaxPayload

\* the bytes of a freshly truncated/extended file are zero
ZeroMagic == "0000"
NUL == "nul"

Subs == {"s1", "s2"}

(***************************************************************************)
(* Events and their serialisation.  An event dictionary is represented by  *)
(* the text between the braces of its JSON form; json.dumps wraps it in    *)
(* braces, json.loads accepts exactly one complete object and raises on a  *)
(* truncated object and on trailing bytes ("Extra data").                  *)
(***************************************************************************)
Chars == {"a", "b"}

\* an event whose JSON form is one byte longer than the capacity
Oversize == [i \in 1..(MAX_PAYLOAD_SIZE - 1) |-> "a"]

\* an event whose JSON form fills the capacity exactly
ExactFit == [i \in 1..(MAX_PAYLOAD_SIZE - 2) |-> "b"]

Events == {<<"a">>, <<"b">>, ExactFit, Oversize}

\* the value json.loads can never return: stands for a raised exception
JsonError == <<"!">>

json_dumps(e) == <<"{">> \o e \o <<"}">>

json_loads(data) ==
  IF /\ Len(data) >= 2
     /\ data[1] = "{"
     /\ data[Len(data)] = "}"
     /\ \A i \in 2..(Len(data) - 1) : data[i] \notin {"{", "}", NUL}
  THEN SubSeq(data, 2, Len(data) - 1)
  ELSE JsonError

\* off by one: truncates a payload that fills the capacity exactly
SerializeOffByOne(e) ==
  LET data == json_dumps(e)
  IN IF Len(data) >= MAX_PAYLOAD_SIZE
     THEN SubSeq(data, 1, MAX_PAYLOAD_SIZE - 1) ELSE data

\* the payload is not truncated to the capacity
SerializeNoTruncate(e) == json_dumps(e)

\* aether_shm.py:133-140: serialise, truncate to the capacity
Serialize(e) ==
  LET data == json_dumps(e)
  IN IF Len(data) > MAX_PAYLOAD_SIZE THEN SubSeq(data, 1, MAX_PAYLOAD_SIZE) ELSE data

Fits(e) == Len(json_dumps(e)) <= MAX_PAYLOAD_SIZE

\* an event json.dumps raises TypeError on (a value that is not JSON)
NotJson == <<"?">>

Serializable(e) == e # NotJson

(***************************************************************************)
(* State.                                                                  *)
(***************************************************************************)
VARIABLES
  hdr,        \* header of the mapped region: magic, version, sequence, length
  payload,    \* the MAX_PAYLOAD_SIZE bytes after the header
  pub,        \* the writer-role object and the position of its write_event
  sub,        \* the reader-role objects and the position of their read_event
  ret,        \* what each subscriber's most recent read_event call returned
  published,  \* the events passed to write_event, in order (index = sequence)
  shm_exists, \* whether the file at SHM_PATH exists
  legacy,     \* the fallback file at LEGACY_EVENT_FILE
  lret,       \* what each consumer's most recent read_event_legacy returned
  con,        \* the consumers that own the subscribers: their check_for_events
  daemon,     \* the daemon: the frame read, its bands, the event built, its step
  osc,        \* the visualizer's smoothed display state and its render loop
  rgb         \* the lighting controller's colour state and its render loop

vars ==
  <<hdr, payload, pub, sub, ret, published, shm_exists, legacy, lret, con, daemon,
    osc, rgb>>

NoEvent == <<>>

ZeroHeader == [magic |-> ZeroMagic, version |-> 0, seq |-> 0, len |-> 0]
ZeroPayload == [i \in 1..MAX_PAYLOAD_SIZE |-> NUL]

\* aether_shm.py:70-83 with is_writer=True, then _init_shm (O_TRUNC, ftruncate)
\* wret: what the most recent write_event call returned ("none" before any)
\* gen: which writer-role object of the region's history this one is
\* closed: how often close() was called on the object
PubInit == [born |-> TRUE, avail |-> TRUE, last_sequence |-> 0, pc |-> "idle", data |-> <<>>,
            wret |-> "none", gen |-> 1, closed |-> 0]

\* aether_shm.py:70-83 with is_writer=False on an existing region
\* at_restart: last_sequence when the publisher was last replaced
\* closed: how often close() was called on the object
SubInit == [born |-> TRUE, avail |-> TRUE, last_sequence |-> 0, pc |-> "idle",
            seq1 |-> 0, data_len |-> 0, data |-> <<>>, ovl |-> FALSE,
            at_restart |-> 0, closed |-> 0]

\* kind/why/event: the result; ovl: the call overlapped a publish;
\* prevRace: the call before it was discarded because of a detected race
RetInit == [kind |-> "nocall", why |-> "", event |-> NoEvent,
            ovl |-> FALSE, prevRace |-> FALSE]

\* no fallback file yet; read_event_legacy then returns (None, 0.0)
NoFile == [exists |-> FALSE, event |-> NoEvent, mtime |-> 0]
NoLegacy == [event |-> NoEvent, mtime |-> 0]

NoBands == <<>>

\* the event send_event has not built yet
NoEventData == <<>>

\* no query of the client yet, and no answer
NoCall == [op |-> "none", band_name |-> "", seq0 |-> 0, hdr0 |-> 0]

NoReply == [kind |-> "none", bands |-> NoBands, value |-> 0]

\* a consumer before its first poll (aether.py:144-148, aether_rgb.py:74-81).
\* pc: position in check_for_events; mt: the modification time getmtime
\* returned; took: where the event processed by the latest poll came from;
\* processed: whether any poll has processed an event
ConInit ==
  [pc |-> "idle", last_event_time |-> 0, shm_retry_counter |-> 0,
   mt |-> 0, took |-> "none", event |-> NoEvent, processed |-> FALSE,
   call |-> NoCall, reply |-> NoReply, last_event |-> NoEventData]

\* the daemon before it has read a frame (aether_daemon.py:230-241)
NoFrame == <<>>

\* the settings of the visualizer's configuration screen
config_keys ==
  {"samples_per_frame", "waveform_decay", "spectrum_decay", "rgb_decay",
   "smooth_factor", "intensity", "virtual_sample_rate"}

\* CONFIG_SCHEMA (aether.py:21-29): <<default, min, max, step>> of every
\* setting; the fractional settings are counted in thousandths
CONFIG_SCHEMA ==
  [key \in config_keys |->
     CASE key = "samples_per_frame" -> <<2, 1, 8, 1>>
       [] key = "waveform_decay" -> <<980, 900, 999, 5>>
       [] key = "spectrum_decay" -> <<920, 700, 990, 20>>
       [] key = "rgb_decay" -> <<850, 500, 950, 50>>
       [] key = "smooth_factor" -> <<300, 50, 800, 50>>
       [] key = "intensity" -> <<1000, 500, 2000, 100>>
       [] OTHER -> <<500, 200, 1000, 50>>]

MakePreset(samples_per_frame, waveform_decay, spectrum_decay, rgb_decay, smooth_factor, intensity, virtual_sample_rate) ==
  [key \in config_keys |->
     CASE key = "samples_per_frame" -> samples_per_frame
       [] key = "waveform_decay" -> waveform_decay
       [] key = "spectrum_decay" -> spectrum_decay
       [] key = "rgb_decay" -> rgb_decay
       [] key = "smooth_factor" -> smooth_factor
       [] key = "intensity" -> intensity
       [] OTHER -> virtual_sample_rate]

\* PRESETS (aether.py:32-69) as the class defines it
PRESETS ==
  [phosphor |-> MakePreset(1, 993, 960, 910, 450, 1000, 400),
   edm |-> MakePreset(3, 960, 870, 800, 250, 1300, 600),
   ambient |-> MakePreset(1, 997, 940, 880, 600, 800, 350),
   default |-> MakePreset(2, 980, 920, 850, 300, 1000, 500)]

\* "custom" is not in PRESETS
NoPreset == <<>>

\* _init_config (aether.py:166-169): every setting at its default
DefaultConfig == [key \in config_keys |-> CONFIG_SCHEMA[key][1]]

\* UltimateOscilloscope after __init__ (aether.py:150-165): targets and
\* levels 0.0; values in 1/OscUnit, smooth_factor and rgb_decay in
\* quarters, intensity in halves; configs counts the visits of the
\* configuration screen.  config holds the seven settings as the
\* configuration screen shows them, RATE is set from virtual_sample_rate
\* (aether.py:158), custom is PRESETS["custom"], keys counts the keys the
\* configuration screen has handled and key is the last of them
OscInit ==
  [pc |-> "poll", frames |-> 0, event |-> NoBands,
   target_amp |-> 0, smooth_amp |-> 0,
   target_bass |-> 0, target_mid |-> 0, target_treble |-> 0,
   bass_level |-> 0, mid_level |-> 0, treble_level |-> 0,
   smooth_factor |-> 1, rgb_decay |-> 3, intensity |-> 2, configs |-> 0,
   config |-> DefaultConfig, RATE |-> DefaultConfig["virtual_sample_rate"],
   custom |-> NoPreset, keys |-> 0, key |-> "none"]

\* AetherRGB after __init__ (aether_rgb.py:71-78, 127) and at the start of
\* run (aether_rgb.py:428)
RgbInit ==
  [pc |-> "poll", got_new_event |-> FALSE, frames_without_event |-> 0,
   mouse_color |-> <<0, 0, 0>>, brightness |-> 0, decays |-> 0]

\* the daemon outside send_event: no record of the transports
NoSnapshot == <<>>

\* before: the region and the fallback file as send_event found them when
\* it had built its event
DaemonInit ==
  [frame |-> NoFrame, bands |-> NoBands, pc |-> "read",
   event_data |-> NoEventData, nframes |-> 0, outcome |-> "none",
   before |-> NoSnapshot]

Init ==
  /\ hdr = ZeroHeader
  /\ payload = ZeroPayload
  /\ pub = PubInit
  /\ sub = [s \in Subs |-> SubInit]
  /\ ret = [s \in Subs |-> RetInit]
  /\ published = <<>>
  /\ shm_exists = TRUE
  /\ legacy = NoFile
  /\ lret = [s \in Subs |-> NoLegacy]
  /\ con = [c \in Subs |-> ConInit]
  /\ daemon = DaemonInit
  /\ osc = OscInit
  /\ rgb = RgbInit

(***************************************************************************)
(* Publisher: write_event (aether_shm.py:118-163).                         *)
(***************************************************************************)
\* a publisher step overlaps every read_event call that is under way
MarkOverlap == [s \in Subs |-> IF sub[s].pc # "idle"
                               THEN [sub[s] EXCEPT !.ovl = TRUE]
                               ELSE sub[s]]

\* mmap.write(data) at offset HEADER_SIZE: overwrites the first Len(data) bytes
PayloadAfterWrite(old, data) ==
  [i \in 1..MAX_PAYLOAD_SIZE |-> IF i <= Len(data) THEN data[i] ELSE old[i]]

NewHeader(seq, len) == [magic |-> MAGIC, version |-> VERSION, seq |-> seq, len |-> len]

\* the header is committed together with the data instead of after it
WritePayloadCommitsHeader(e) ==
  /\ pub.pc = "idle"
  /\ pub.avail
  /\ Serializable(e)
  /\ LET data == Serialize(e)
     IN /\ pub' = [pub EXCEPT !.last_sequence = pub.last_sequence + 1,
                              !.data = data,
                              !.pc = "write_header"]
        /\ payload' = PayloadAfterWrite(payload, data)
        /\ hdr' = NewHeader(pub.last_sequence + 1, Len(data))
  /\ published' = Append(published, e)
  /\ sub' = MarkOverlap
  /\ UNCHANGED <<ret, shm_exists, legacy, lret, con, daemon, osc, rgb>>

\* the sequence counter is not incremented
WritePayloadNoIncrement(e) ==
  /\ pub.pc = "idle"
  /\ pub.avail
  /\ Serializable(e)
  /\ LET data == Serialize(e)
     IN /\ pub' = [pub EXCEPT !.data = data, !.pc = "write_header"]
        /\ payload' = PayloadAfterWrite(payload, data)
  /\ published' = Append(published, e)
  /\ sub' = MarkOverlap
  /\ UNCHANGED <<hdr, ret, shm_exists, legacy, lret, con, daemon, osc, rgb>>

\* lines 128-148: serialise, truncate, increment the sequence, write the data
WritePayload(e) ==
  /\ pub.pc = "idle"
  /\ pub.avail
  /\ Serializable(e)
  /\ LET data == Serialize(e)
     IN /\ pub' = [pub EXCEPT !.last_sequence = pub.last_sequence + 1,
                              !.data = data,
                              !.pc = "write_header"]
        /\ payload' = PayloadAfterWrite(payload, data)
  /\ published' = Append(published, e)
  /\ sub' = MarkOverlap
  /\ UNCHANGED <<hdr, ret, shm_exists, legacy, lret, con, daemon, osc, rgb>>

\* the header is packed with the sequence after the counter's
WriteHeaderOffByOne ==
  /\ pub.pc = "write_header"
  /\ hdr' = NewHeader(pub.last_sequence + 1, Len(pub.data))
  /\ pub' = [pub EXCEPT !.pc = "idle", !.data = <<>>, !.wret = "True"]
  /\ sub' = MarkOverlap
  /\ UNCHANGED <<payload, ret, published, shm_exists, legacy, lret, con, daemon, osc, rgb>>

\* lines 150-158: pack and write the header at offset 0, return True
WriteHeader ==
  /\ pub.pc = "write_header"
  /\ hdr' = NewHeader(pub.last_sequence, Len(pub.data))
  /\ pub' = [pub EXCEPT !.pc = "idle", !.data = <<>>, !.wret = "True"]
  /\ sub' = MarkOverlap
  /\ UNCHANGED <<payload, ret, published, shm_exists, legacy, lret, con, daemon, osc, rgb>>

(***************************************************************************)
(* Subscriber: read_event (aether_shm.py:165-231).                         *)
(***************************************************************************)
\* the call returns: record the result, forget the locals
Return(s, kind, why, event, ovl) ==
  ret' = [ret EXCEPT ![s] = [kind |-> kind, why |-> why, event |-> event,
                             ovl |-> ovl, prevRace |-> (ret[s].why = "race")]]

Idle(r) == [r EXCEPT !.pc = "idle", !.seq1 = 0, !.data_len = 0,
                     !.data = <<>>, !.ovl = FALSE]

\* "<" for "<=": a frame already consumed counts as new
ReadHeaderLt(s) ==
  /\ sub[s].born
  /\ sub[s].pc = "idle"
  /\ LET ovl == pub.pc # "idle"
     IN IF ~sub[s].avail
        THEN /\ Return(s, "None", "unavailable", NoEvent, ovl)
             /\ UNCHANGED sub
        ELSE IF hdr.magic # MAGIC \/ hdr.version # VERSION
        THEN /\ Return(s, "None", "protocol", NoEvent, ovl)
             /\ UNCHANGED sub
        ELSE IF hdr.seq = 0 \/ hdr.seq < sub[s].last_sequence
        THEN /\ Return(s, "None", "stale", NoEvent, ovl)
             /\ UNCHANGED sub
        ELSE IF hdr.len = 0 \/ hdr.len > MAX_PAYLOAD_SIZE
        THEN /\ Return(s, "None", "length", NoEvent, ovl)
             /\ UNCHANGED sub
        ELSE /\ sub' = [sub EXCEPT ![s] = [@ EXCEPT !.pc = "read_data",
                                                    !.seq1 = hdr.seq,
                                                    !.data_len = hdr.len,
                                                    !.ovl = ovl]]
             /\ UNCHANGED ret
  /\ UNCHANGED <<hdr, payload, pub, published, shm_exists, legacy, lret, con, daemon, osc, rgb>>

\* only the magic is validated, the version is ignored
ReadHeaderMagicOnly(s) ==
  /\ sub[s].born
  /\ sub[s].pc = "idle"
  /\ LET ovl == pub.pc # "idle"
     IN IF ~sub[s].avail
        THEN /\ Return(s, "None", "unavailable", NoEvent, ovl)
             /\ UNCHANGED sub
        ELSE IF hdr.magic # MAGIC
        THEN /\ Return(s, "None", "protocol", NoEvent, ovl)
             /\ UNCHANGED sub
        ELSE IF hdr.seq = 0 \/ hdr.seq <= sub[s].last_sequence
        THEN /\ Return(s, "None", "stale", NoEvent, ovl)
             /\ UNCHANGED sub
        ELSE IF hdr.len = 0 \/ hdr.len > MAX_PAYLOAD_SIZE
        THEN /\ Return(s, "None", "length", NoEvent, ovl)
             /\ UNCHANGED sub
        ELSE /\ sub' = [sub EXCEPT ![s] = [@ EXCEPT !.pc = "read_data",
                                                    !.seq1 = hdr.seq,
                                                    !.data_len = hdr.len,
                                                    !.ovl = ovl]]
             /\ UNCHANGED ret
  /\ UNCHANGED <<hdr, payload, pub, published, shm_exists, legacy, lret, con, daemon, osc, rgb>>

\* a length of 0 is not rejected
ReadHeaderNoZeroLength(s) ==
  /\ sub[s].born
  /\ sub[s].pc = "idle"
  /\ LET ovl == pub.pc # "idle"
     IN IF ~sub[s].avail
        THEN /\ Return(s, "None", "unavailable", NoEvent, ovl)
             /\ UNCHANGED sub
        ELSE IF hdr.magic # MAGIC \/ hdr.version # VERSION
        THEN /\ Return(s, "None", "protocol", NoEvent, ovl)
             /\ UNCHANGED sub
        ELSE IF hdr.seq = 0 \/ hdr.seq <= sub[s].last_sequence
        THEN /\ Return(s, "None", "stale", NoEvent, ovl)
             /\ UNCHANGED sub
        ELSE IF hdr.len > MAX_PAYLOAD_SIZE
        THEN /\ Return(s, "None", "length", NoEvent, ovl)
             /\ UNCHANGED sub
        ELSE /\ sub' = [sub EXCEPT ![s] = [@ EXCEPT !.pc = "read_data",
                                                    !.seq1 = hdr.seq,
                                                    !.data_len = hdr.len,
                                                    !.ovl = ovl]]
             /\ UNCHANGED ret
  /\ UNCHANGED <<hdr, payload, pub, published, shm_exists, legacy, lret, con, daemon, osc, rgb>>

\* an unavailable subscriber maps the region on demand inside read_event
ReadHeaderLazyOpen(s) ==
  /\ sub[s].born
  /\ sub[s].pc = "idle"
  /\ LET ovl == pub.pc # "idle"
     IN IF ~sub[s].avail /\ shm_exists
        THEN /\ Return(s, "None", "stale", NoEvent, ovl)
             /\ sub' = [sub EXCEPT ![s].avail = TRUE]
        ELSE IF ~sub[s].avail
        THEN /\ Return(s, "None", "unavailable", NoEvent, ovl)
             /\ UNCHANGED sub
        ELSE IF hdr.magic # MAGIC \/ hdr.version # VERSION
        THEN /\ Return(s, "None", "protocol", NoEvent, ovl)
             /\ UNCHANGED sub
        ELSE IF hdr.seq = 0 \/ hdr.seq <= sub[s].last_sequence
        THEN /\ Return(s, "None", "stale", NoEvent, ovl)
             /\ UNCHANGED sub
        ELSE IF hdr.len = 0 \/ hdr.len > MAX_PAYLOAD_SIZE
        THEN /\ Return(s, "None", "length", NoEvent, ovl)
             /\ UNCHANGED sub
        ELSE /\ sub' = [sub EXCEPT ![s] = [@ EXCEPT !.pc = "read_data",
                                                    !.seq1 = hdr.seq,
                                                    !.data_len = hdr.len,
                                                    !.ovl = ovl]]
             /\ UNCHANGED ret
  /\ UNCHANGED <<hdr, payload, pub, published, shm_exists, legacy, lret, con, daemon, osc, rgb>>

\* a header sequence below the last consumed one is taken for a restarted
\* publisher: the subscriber starts over
ReadHeaderDetectsRestart(s) ==
  /\ sub[s].born
  /\ sub[s].pc = "idle"
  /\ LET ovl == pub.pc # "idle"
     IN IF ~sub[s].avail
        THEN /\ Return(s, "None", "unavailable", NoEvent, ovl)
             /\ UNCHANGED sub
        ELSE IF hdr.magic # MAGIC \/ hdr.version # VERSION
        THEN /\ Return(s, "None", "protocol", NoEvent, ovl)
             /\ UNCHANGED sub
        ELSE IF hdr.seq = 0 \/ hdr.seq = sub[s].last_sequence
        THEN /\ Return(s, "None", "stale", NoEvent, ovl)
             /\ UNCHANGED sub
        ELSE IF hdr.len = 0 \/ hdr.len > MAX_PAYLOAD_SIZE
        THEN /\ Return(s, "None", "length", NoEvent, ovl)
             /\ UNCHANGED sub
        ELSE /\ sub' = [sub EXCEPT ![s] = [@ EXCEPT !.pc = "read_data",
                                                    !.seq1 = hdr.seq,
                                                    !.data_len = hdr.len,
                                                    !.ovl = ovl]]
             /\ UNCHANGED ret
  /\ UNCHANGED <<hdr, payload, pub, published, shm_exists, legacy, lret, con, daemon, osc, rgb>>

\* lines 172-199: availability, header read, validation, early returns
ReadHeader(s) ==
  /\ sub[s].born
  /\ sub[s].pc = "idle"
  /\ LET ovl == pub.pc # "idle"
     IN IF ~sub[s].avail
        THEN /\ Return(s, "None", "unavailable", NoEvent, ovl)
             /\ UNCHANGED sub
        ELSE IF hdr.magic # MAGIC \/ hdr.version # VERSION
        THEN /\ Return(s, "None", "protocol", NoEvent, ovl)
             /\ UNCHANGED sub
        ELSE IF hdr.seq = 0 \/ hdr.seq <= sub[s].last_sequence
        THEN /\ Return(s, "None", "stale", NoEvent, ovl)
             /\ UNCHANGED sub
        ELSE IF hdr.len = 0 \/ hdr.len > MAX_PAYLOAD_SIZE
        THEN /\ Return(s, "None", "length", NoEvent, ovl)
             /\ UNCHANGED sub
        ELSE /\ sub' = [sub EXCEPT ![s] = [@ EXCEPT !.pc = "read_data",
                                                    !.seq1 = hdr.seq,
                                                    !.data_len = hdr.len,
                                                    !.ovl = ovl]]
             /\ UNCHANGED ret
  /\ UNCHANGED <<hdr, payload, pub, published, shm_exists, legacy, lret, con, daemon, osc, rgb>>

\* lines 201-203: read data_len bytes at offset HEADER_SIZE
ReadData(s) ==
  /\ sub[s].pc = "read_data"
  /\ sub' = [sub EXCEPT ![s] = [@ EXCEPT !.pc = "read_seq2",
                                         !.data = SubSeq(payload, 1, sub[s].data_len)]]
  /\ UNCHANGED <<hdr, payload, pub, ret, published, shm_exists, legacy, lret, con, daemon, osc, rgb>>

\* the sequence is not verified: whatever was read is decoded and returned
ReadSeq2NoVerify(s) ==
  /\ sub[s].pc = "read_seq2"
  /\ LET event == json_loads(sub[s].data)
     IN IF event = JsonError
        THEN /\ Return(s, "None", "decode", NoEvent, sub[s].ovl)
             /\ sub' = [sub EXCEPT ![s] = Idle(@)]
        ELSE /\ Return(s, "event", "ok", event, sub[s].ovl)
             /\ sub' = [sub EXCEPT ![s] = [Idle(@) EXCEPT !.last_sequence = sub[s].seq1]]
  /\ UNCHANGED <<hdr, payload, pub, published, shm_exists, legacy, lret, con, daemon, osc, rgb>>

\* a detected race still records the re-read sequence as consumed
ReadSeq2RaceAdvances(s) ==
  /\ sub[s].pc = "read_seq2"
  /\ LET seq2 == hdr.seq
         event == json_loads(sub[s].data)
     IN IF sub[s].seq1 # seq2
        THEN /\ Return(s, "None", "race", NoEvent, sub[s].ovl)
             /\ sub' = [sub EXCEPT ![s] = [Idle(@) EXCEPT !.last_sequence = seq2]]
        ELSE IF event = JsonError
        THEN /\ Return(s, "None", "decode", NoEvent, sub[s].ovl)
             /\ sub' = [sub EXCEPT ![s] = Idle(@)]
        ELSE /\ Return(s, "event", "ok", event, sub[s].ovl)
             /\ sub' = [sub EXCEPT ![s] = [Idle(@) EXCEPT !.last_sequence = sub[s].seq1]]
  /\ UNCHANGED <<hdr, payload, pub, published, shm_exists, legacy, lret, con, daemon, osc, rgb>>

\* last_sequence is one attribute shared by all instances
ReadSeq2SharedCursor(s) ==
  /\ sub[s].pc = "read_seq2"
  /\ LET seq2 == hdr.seq
         event == json_loads(sub[s].data)
     IN IF sub[s].seq1 # seq2
        THEN /\ Return(s, "None", "race", NoEvent, sub[s].ovl)
             /\ sub' = [sub EXCEPT ![s] = Idle(@)]
        ELSE IF event = JsonError
        THEN /\ Return(s, "None", "decode", NoEvent, sub[s].ovl)
             /\ sub' = [sub EXCEPT ![s] = Idle(@)]
        ELSE /\ Return(s, "event", "ok", event, sub[s].ovl)
             /\ sub' = [t \in Subs |->
                          [(IF t = s THEN Idle(sub[t]) ELSE sub[t])
                             EXCEPT !.last_sequence = sub[s].seq1]]
  /\ UNCHANGED <<hdr, payload, pub, published, shm_exists, legacy, lret, con, daemon, osc, rgb>>

\* a detected race is retried inside the call
ReadSeq2Retry(s) ==
  /\ sub[s].pc = "read_seq2"
  /\ LET seq2 == hdr.seq
         event == json_loads(sub[s].data)
     IN IF sub[s].seq1 # seq2
        THEN /\ sub' = [sub EXCEPT ![s] = [@ EXCEPT !.pc = "read_data",
                                                    !.seq1 = seq2,
                                                    !.data_len = hdr.len]]
             /\ UNCHANGED ret
        ELSE IF event = JsonError
        THEN /\ Return(s, "None", "decode", NoEvent, sub[s].ovl)
             /\ sub' = [sub EXCEPT ![s] = Idle(@)]
        ELSE /\ Return(s, "event", "ok", event, sub[s].ovl)
             /\ sub' = [sub EXCEPT ![s] = [Idle(@) EXCEPT !.last_sequence = sub[s].seq1]]
  /\ UNCHANGED <<hdr, payload, pub, published, shm_exists, legacy, lret, con, daemon, osc, rgb>>

\* last_sequence is recorded before the payload is decoded
ReadSeq2DecodeAdvances(s) ==
  /\ sub[s].pc = "read_seq2"
  /\ LET seq2 == hdr.seq
         event == json_loads(sub[s].data)
     IN IF sub[s].seq1 # seq2
        THEN /\ Return(s, "None", "race", NoEvent, sub[s].ovl)
             /\ sub' = [sub EXCEPT ![s] = Idle(@)]
        ELSE IF event = JsonError
        THEN /\ Return(s, "None", "decode", NoEvent, sub[s].ovl)
             /\ sub' = [sub EXCEPT ![s] = [Idle(@) EXCEPT !.last_sequence = sub[s].seq1]]
        ELSE /\ Return(s, "event", "ok", event, sub[s].ovl)
             /\ sub' = [sub EXCEPT ![s] = [Idle(@) EXCEPT !.last_sequence = sub[s].seq1]]
  /\ UNCHANGED <<hdr, payload, pub, published, shm_exists, legacy, lret, con, daemon, osc, rgb>>

\* lines 205-226: re-read the sequence, verify, decode, record, return
ReadSeq2(s) ==
  /\ sub[s].pc = "read_seq2"
  /\ LET seq2 == hdr.seq
         event == json_loads(sub[s].data)
     IN IF sub[s].seq1 # seq2
        THEN /\ Return(s, "None", "race", NoEvent, sub[s].ovl)
             /\ sub' = [sub EXCEPT ![s] = Idle(@)]
        ELSE IF event = JsonError
        THEN /\ Return(s, "None", "decode", NoEvent, sub[s].ovl)
             /\ sub' = [sub EXCEPT ![s] = Idle(@)]
        ELSE /\ Return(s, "event", "ok", event, sub[s].ovl)
             /\ sub' = [sub EXCEPT ![s] = [Idle(@) EXCEPT !.last_sequence = sub[s].seq1]]
  /\ UNCHANGED <<hdr, payload, pub, published, shm_exists, legacy, lret, con, daemon, osc, rgb>>

(***************************************************************************)
(* Construction and close (aether_shm.py:70-116, 233-249) and the legacy   *)
(* fallback file (aether_shm.py:257-286, aether_daemon.py:185-190).        *)
(***************************************************************************)
\* the role is ignored: a reader creates and truncates the file as well
InitShmAlwaysTruncates(is_writer, opens) ==
  IF opens THEN <<TRUE, ZeroHeader, ZeroPayload, TRUE>>
           ELSE <<shm_exists, hdr, payload, FALSE>>

\* _init_shm: what it does to the file at SHM_PATH and to the region.
\* The writer creates/truncates the file and extends it with zero bytes;
\* the reader opens it read-only, or returns early when it does not exist.
\* opens: whether os.open/mmap succeed.  Result: <<exists, hdr, payload, _mm set>>
InitShm(is_writer, opens) ==
  IF is_writer
  THEN IF opens THEN <<TRUE, ZeroHeader, ZeroPayload, TRUE>>
                ELSE <<shm_exists, hdr, payload, FALSE>>
  ELSE <<shm_exists, hdr, payload, shm_exists /\ opens>>

\* AetherSharedMemory(is_writer=True), aether_daemon.py:104
PubConstruct(opens) ==
  /\ ~pub.born
  /\ LET r == InitShm(TRUE, opens)
     IN /\ shm_exists' = r[1]
        /\ hdr' = r[2]
        /\ payload' = r[3]
        /\ pub' = [PubInit EXCEPT !.avail = r[4]]
  /\ UNCHANGED <<sub, ret, published, legacy, lret, con, daemon, osc, rgb>>

\* AetherSharedMemory(is_writer=False), aether.py:148, aether_rgb.py:81
SubConstruct(s, opens) ==
  /\ ~sub[s].born
  /\ LET r == InitShm(FALSE, opens)
     IN /\ shm_exists' = r[1]
        /\ hdr' = r[2]
        /\ payload' = r[3]
        /\ sub' = [sub EXCEPT ![s] = [SubInit EXCEPT !.avail = r[4]]]
  /\ UNCHANGED <<pub, ret, published, legacy, lret, con, daemon, osc, rgb>>

\* close(): unmaps and closes the descriptor; between calls of read_event
SubClose(s) ==
  /\ sub[s].born
  /\ sub[s].pc = "idle"
  /\ sub[s].avail
  /\ sub' = [sub EXCEPT ![s].avail = FALSE]
  /\ UNCHANGED <<hdr, payload, pub, ret, published, shm_exists, legacy, lret, con, daemon, osc, rgb>>

\* send_event when the region is unavailable: write_event_legacy overwrites
\* the file; its modification time is the time of the write
WriteEventLegacy(e) ==
  /\ pub.born
  /\ ~pub.avail
  /\ legacy' = [exists |-> TRUE, event |-> e, mtime |-> legacy.mtime + 1]
  /\ UNCHANGED <<hdr, payload, pub, sub, ret, published, shm_exists, lret, con, daemon, osc, rgb>>

\* read_event_legacy: (None, 0.0) when the file is missing, else its
\* contents decoded and its modification time
ReadEventLegacy(s) ==
  /\ sub[s].born
  /\ sub[s].pc = "idle"
  /\ lret' = [lret EXCEPT ![s] =
               IF legacy.exists
               THEN [event |-> json_loads(json_dumps(legacy.event)), mtime |-> legacy.mtime]
               ELSE NoLegacy]
  /\ UNCHANGED <<hdr, payload, pub, sub, ret, published, shm_exists, legacy, con, daemon, osc, rgb>>

\* write_event called with any event, at most MaxPublishes times
Publish(e) == pub.last_sequence < MaxPublishes /\ WritePayload(e)

Next ==
  \/ \E e \in Events : Publish(e)
  \/ WriteHeader
  \/ \E s \in Subs : ReadHeader(s)
  \/ \E s \in Subs : ReadData(s)
  \/ \E s \in Subs : ReadSeq2(s)

Spec == Init /\ [][Next]_vars

(***************************************************************************)
(* The channel with its life cycle: nothing exists at first; the daemon    *)
(* and the consumers are constructed in any order, consumers may close,    *)
(* and the daemon falls back to the file when its region cannot be opened. *)
(***************************************************************************)
\* number of publishes (region or file) explored with the life cycle
MaxLifePublishes == 2

InitLife ==
  /\ hdr = ZeroHeader
  /\ payload = ZeroPayload
  /\ pub = [PubInit EXCEPT !.born = FALSE, !.avail = FALSE]
  /\ sub = [s \in Subs |-> [SubInit EXCEPT !.born = FALSE, !.avail = FALSE]]
  /\ ret = [s \in Subs |-> RetInit]
  /\ published = <<>>
  /\ shm_exists = FALSE
  /\ legacy = NoFile
  /\ lret = [s \in Subs |-> NoLegacy]
  /\ con = [c \in Subs |-> ConInit]
  /\ daemon = DaemonInit
  /\ osc = OscInit
  /\ rgb = RgbInit

PublishLife(e) == pub.last_sequence < MaxLifePublishes /\ WritePayload(e)

PublishLegacy(e) == legacy.mtime < MaxLifePublishes /\ WriteEventLegacy(e)

NextLife ==
  \/ \E opens \in BOOLEAN : PubConstruct(opens)
  \/ \E s \in Subs, opens \in BOOLEAN : SubConstruct(s, opens)
  \/ \E s \in Subs : SubClose(s)
  \/ \E e \in Events : PublishLife(e)
  \/ WriteHeader
  \/ \E e \in Events : PublishLegacy(e)
  \/ \E s \in Subs : ReadHeader(s)
  \/ \E s \in Subs : ReadData(s)
  \/ \E s \in Subs : ReadSeq2(s)
  \/ \E s \in Subs : ReadEventLegacy(s)

SpecLife == InitLife /\ [][NextLife]_vars

TypeOK ==
  /\ hdr.seq \in 0..MaxPublishes
  /\ Len(payload) = MAX_PAYLOAD_SIZE
  /\ pub.pc \in {"idle", "write_header", "legacy_dump"}
  /\ \A s \in Subs : sub[s].pc \in {"idle", "read_data", "read_seq2"}

(***************************************************************************)
(* The lockstep schedule: events that fit the capacity are published one   *)
(* at a time, and after each completed publish every subscriber polls      *)
(* once; no poll overlaps a publish.                                       *)
(***************************************************************************)
\* number of publishes explored under the lockstep schedule
MaxLockstep == 4

PublishLockstep(e) ==
  /\ Fits(e)
  /\ pub.last_sequence < MaxLockstep
  /\ \A s \in Subs : sub[s].pc = "idle" /\ sub[s].last_sequence = pub.last_sequence
  /\ WritePayload(e)

PollLockstep(s) ==
  /\ pub.pc = "idle"
  /\ sub[s].last_sequence < hdr.seq
  /\ ReadHeader(s)

NextLockstep ==
  \/ \E e \in Events : PublishLockstep(e)
  \/ WriteHeader
  \/ \E s \in Subs : PollLockstep(s)
  \/ \E s \in Subs : ReadData(s)
  \/ \E s \in Subs : ReadSeq2(s)

SpecLockstep == Init /\ [][NextLockstep]_vars

(***************************************************************************)
(* The channel at its edges: events that cannot be serialised or exceed    *)
(* the capacity, a publisher whose region could not be opened, and - when  *)
(* ours could not open it - a region written by a publisher of another     *)
(* protocol generation, with any header and payload.                       *)
(***************************************************************************)
\* number of write_event calls explored at the edges
MaxEdgePublishes == 2
\* largest sequence number a foreign header carries
MaxForeignSeq == 2

EdgeEvents == {<<"a">>, ExactFit, Oversize, NotJson}

ForeignMagic == "AEHX"

\* the lengths a foreign header carries: none, one frame, beyond the capacity
ForeignLens == {0, Len(json_dumps(<<"a">>)), MAX_PAYLOAD_SIZE + 1}

ForeignHeaders ==
  [magic : {MAGIC, ForeignMagic}, version : {VERSION, VERSION + 1},
   seq : 1..MaxForeignSeq, len : ForeignLens]

ForeignPayload == PayloadAfterWrite(ZeroPayload, json_dumps(<<"a">>))

\* the sequence counter is incremented before the event is serialised
WriteFailIncrements(e) ==
  /\ pub.born
  /\ pub.pc = "idle"
  /\ ~pub.avail \/ ~Serializable(e)
  /\ pub' = [pub EXCEPT !.wret = "False",
                        !.last_sequence = IF pub.avail THEN pub.last_sequence + 1
                                          ELSE pub.last_sequence]
  /\ UNCHANGED <<hdr, payload, sub, ret, published, shm_exists, legacy, lret, con, daemon, osc, rgb>>

\* aether_shm.py:128-133, 160-163: write_event returns False before it has
\* touched anything: the region is unavailable, or json.dumps raises
WriteFail(e) ==
  /\ pub.born
  /\ pub.pc = "idle"
  /\ ~pub.avail \/ ~Serializable(e)
  /\ pub' = [pub EXCEPT !.wret = "False"]
  /\ UNCHANGED <<hdr, payload, sub, ret, published, shm_exists, legacy, lret, con, daemon, osc, rgb>>

\* a publisher of another protocol generation owns the region and commits
\* its next frame
ForeignWrite(h) ==
  /\ pub.born
  /\ ~pub.avail
  /\ h.seq > hdr.seq
  /\ hdr' = h
  /\ payload' = ForeignPayload
  /\ sub' = MarkOverlap
  /\ UNCHANGED <<pub, ret, published, shm_exists, legacy, lret, con, daemon, osc, rgb>>

InitEdge ==
  /\ hdr = ZeroHeader
  /\ payload = ZeroPayload
  /\ \E opens \in BOOLEAN : pub = [PubInit EXCEPT !.avail = opens]
  /\ sub = [s \in Subs |-> SubInit]
  /\ ret = [s \in Subs |-> RetInit]
  /\ published = <<>>
  /\ shm_exists = TRUE
  /\ legacy = NoFile
  /\ lret = [s \in Subs |-> NoLegacy]
  /\ con = [c \in Subs |-> ConInit]
  /\ daemon = DaemonInit
  /\ osc = OscInit
  /\ rgb = RgbInit

PublishEdge(e) == pub.last_sequence < MaxEdgePublishes /\ WritePayload(e)

NextEdge ==
  \/ \E e \in EdgeEvents : PublishEdge(e)
  \/ WriteHeader
  \/ \E e \in EdgeEvents : WriteFail(e)
  \/ \E h \in ForeignHeaders : ForeignWrite(h)
  \/ \E s \in Subs : ReadHeader(s)
  \/ \E s \in Subs : ReadData(s)
  \/ \E s \in Subs : ReadSeq2(s)

SpecEdge == InitEdge /\ [][NextEdge]_vars

(***************************************************************************)
(* Properties.                                                             *)
(***************************************************************************)
\* a step in which subscriber s's read_event call returns
Returns(s) ==
  \/ sub[s].pc = "read_seq2" /\ sub'[s].pc = "idle"
  \/ ReadHeader(s) /\ sub'[s].pc = "idle"

\* any step of subscriber s's read_event
ReadStep(s) == ReadHeader(s) \/ ReadData(s) \/ ReadSeq2(s)

\* C1: whatever read_event returns is the event of exactly one publish, and
\* that publish is the one whose sequence number the subscriber has recorded
\* as last consumed - under every interleaving of the publisher's two writes
\* with the subscriber's three reads.
C1_ReturnedEventIsThePublishRecorded ==
  \A s \in Subs :
    ret[s].kind = "event" =>
      /\ sub[s].last_sequence \in 1..Len(published)
      /\ ret[s].event = published[sub[s].last_sequence]

\* C2: when the sequence re-read after the payload differs from the one read
\* in the header, the call returns None and last_sequence keeps its value.
C2_RaceReturnsNone ==
  [][\A s \in Subs :
       (sub[s].pc = "read_seq2" /\ sub'[s].pc # "read_seq2" /\ hdr.seq # sub[s].seq1)
         => /\ sub'[s].pc = "idle"
            /\ ret'[s].kind = "None"
            /\ sub'[s].last_sequence = sub[s].last_sequence]_vars

C2_Witness ==
  \E s \in Subs : ret[s].kind = "None" /\ ret[s].why = "race" /\ ret[s].ovl

\* C3: a subscriber never returns a frame whose sequence is <= the one it has
\* consumed: a header with sequence 0 or <= last_sequence gives None,
\* last_sequence changes only when an event is returned, and then to a
\* strictly larger value, the sequence read in the header.
C3_NoReplay ==
  [][\A s \in Subs :
       /\ (ReadHeader(s) /\ sub[s].avail
             /\ (hdr.seq = 0 \/ hdr.seq <= sub[s].last_sequence))
            => (ret'[s].kind = "None" /\ sub'[s].pc = "idle")
       /\ (sub'[s].last_sequence # sub[s].last_sequence)
            => (sub[s].pc = "read_seq2" /\ ret'[s].kind = "event")
       /\ (sub[s].pc = "read_seq2" /\ sub'[s].pc = "idle" /\ ret'[s].kind = "event")
            => /\ sub'[s].last_sequence > sub[s].last_sequence
               /\ sub'[s].last_sequence = sub[s].seq1]_vars

C3_Witness ==
  \E s \in Subs :
    /\ sub[s].last_sequence >= 1
    /\ sub[s].last_sequence = hdr.seq
    /\ ret[s].kind = "None" /\ ret[s].why = "stale"

\* C4 as stated: the first read_event after one discarded for a race, running
\* after the racing publish completed and overlapping no publish, returns the
\* newest committed frame.
C4_NextPollReturnsNewerFrame ==
  [][\A s \in Subs :
       (ret[s].why = "race" /\ Returns(s) /\ ~ret'[s].ovl)
         => /\ ret'[s].kind = "event"
            /\ ret'[s].event = published[hdr.seq]
            /\ sub'[s].last_sequence = hdr.seq]_vars

\* C4 amended: the same, provided the newest committed frame was not
\* truncated at publish; a truncated frame is not decodable and the poll
\* returns None, leaving last_sequence unchanged.
C4_NextPollReturnsNewerFrameThatFits ==
  [][\A s \in Subs :
       (ret[s].why = "race" /\ Returns(s) /\ ~ret'[s].ovl)
         => IF Fits(published[hdr.seq])
            THEN /\ ret'[s].kind = "event"
                 /\ ret'[s].event = published[hdr.seq]
                 /\ sub'[s].last_sequence = hdr.seq
            ELSE /\ ret'[s].kind = "None"
                 /\ sub'[s].last_sequence = sub[s].last_sequence]_vars

C4_Witness ==
  \E s \in Subs :
    /\ ret[s].prevRace /\ ~ret[s].ovl
    /\ ret[s].kind = "event"
    /\ ret[s].event = published[sub[s].last_sequence]
    /\ sub[s].last_sequence >= 2

\* C5: the header carrying a new sequence is written only after the payload:
\* at the step that commits sequence N the region already holds all payload
\* bytes of frame N, and that step writes no payload byte.
C5_PayloadBeforeHeader ==
  [][hdr'.seq # hdr.seq
       => /\ payload' = payload
          /\ hdr'.seq \in 1..Len(published)
          /\ hdr'.len = Len(Serialize(published[hdr'.seq]))
          /\ SubSeq(payload, 1, hdr'.len) = Serialize(published[hdr'.seq])]_vars

C5_Witness ==
  /\ hdr.seq >= 2
  /\ pub.pc = "idle"
  /\ SubSeq(payload, 1, hdr.len) = Serialize(published[hdr.seq])

\* C6: the sequence written to the header is 1 on the first publish and one
\* more than the previous on each later one; 0 is never written and the
\* header sequence never decreases.
C6_SequenceCountsUpFromOne ==
  [][/\ (pub.pc = "write_header" /\ pub'.pc = "idle")
          => (hdr'.seq = hdr.seq + 1 /\ hdr'.seq >= 1 /\ hdr'.magic = MAGIC)
     /\ hdr'.seq >= hdr.seq
     /\ (hdr.seq = 0 /\ hdr'.seq # 0) => hdr'.seq = 1]_vars

C6_Witness ==
  /\ hdr.seq = 1
  /\ pub.last_sequence = 2
  /\ pub.pc = "write_header"

\* C7: under the lockstep schedule every poll returns the event of the most
\* recent publish (decoding undoes encoding), and a subscriber's consumed
\* sequence goes 1, 2, ..., N.
C7_LockstepDelivers ==
  /\ [](\A s \in Subs :
          /\ ret[s].kind \in {"nocall", "event"}
          /\ ret[s].kind = "nocall" => sub[s].last_sequence = 0
          /\ ret[s].kind = "event"
               => /\ sub[s].last_sequence \in 1..Len(published)
                  /\ ret[s].event = published[sub[s].last_sequence]
                  /\ sub[s].last_sequence \in {hdr.seq - 1, hdr.seq})
  /\ [][\A s \in Subs :
          /\ sub'[s].last_sequence # sub[s].last_sequence
               => sub'[s].last_sequence = sub[s].last_sequence + 1
          /\ Returns(s)
               => /\ ret'[s].kind = "event"
                  /\ ret'[s].event = published[Len(published)]
                  /\ sub'[s].last_sequence = Len(published)]_vars

C7_Witness ==
  \A s \in Subs :
    /\ sub[s].last_sequence >= 3
    /\ sub[s].last_sequence = Len(published)
    /\ ret[s].event = published[Len(published)]
    /\ ret[s].event = ExactFit

\* C8: a step of one subscriber's read_event changes neither another
\* subscriber's state or result nor the region; and two subscribers whose
\* polls did not overlap a publish return the same event for the same
\* sequence.
C8_SubscribersIndependent ==
  /\ [][\A s \in Subs : ReadStep(s) =>
          /\ UNCHANGED <<hdr, payload>>
          /\ \A t \in Subs \ {s} : sub'[t] = sub[t] /\ ret'[t] = ret[t]]_vars
  /\ [](\A s, t \in Subs :
          (/\ ret[s].kind = "event" /\ ~ret[s].ovl
           /\ ret[t].kind = "event" /\ ~ret[t].ovl
           /\ sub[s].last_sequence = sub[t].last_sequence)
            => ret[s].event = ret[t].event)

C8_Witness ==
  \E s, t \in Subs :
    /\ s # t
    /\ ret[s].kind = "event" /\ ~ret[s].ovl
    /\ ret[t].kind = "event" /\ ~ret[t].ovl
    /\ sub[s].last_sequence = 2 /\ sub[t].last_sequence = 2
    /\ ret[s].event = ret[t].event

\* any operation of consumer s: construction, read_event, close, legacy read
SubscriberStep(s) ==
  \/ \E opens \in BOOLEAN : SubConstruct(s, opens)
  \/ SubClose(s)
  \/ ReadStep(s)
  \/ ReadEventLegacy(s)

\* C9: no subscriber operation changes the region, the file behind it or the
\* fallback file; every change to them is made by a publisher operation.
C9_SubscribersNeverWrite ==
  [][/\ \A s \in Subs :
          SubscriberStep(s) => UNCHANGED <<hdr, payload, shm_exists, legacy>>
     /\ (<<hdr, payload, shm_exists, legacy>>' # <<hdr, payload, shm_exists, legacy>>)
          => \/ \E opens \in BOOLEAN : PubConstruct(opens)
             \/ \E e \in Events : WritePayload(e) \/ WriteEventLegacy(e)
             \/ WriteHeader]_vars

C9_Witness ==
  \E s, t \in Subs :
    /\ hdr.seq >= 1
    /\ sub[s].born /\ ~sub[s].avail /\ ret[s].kind = "event"
    /\ sub[t].born /\ sub[t].avail /\ sub[t].last_sequence = 0

\* C10: neither role waits on the other.  Each step of write_event is
\* enabled whatever the subscribers are doing and each step of read_event
\* whatever the publisher is doing; a read_event call moves header read ->
\* payload read -> sequence re-read -> return without going back; and a poll
\* that finds no new sequence returns None at the header read.
C10_NobodyWaits ==
  /\ [](/\ (pub.pc = "idle" /\ pub.avail) => \A e \in Events : ENABLED WritePayload(e)
        /\ pub.pc = "write_header" => ENABLED WriteHeader
        /\ \A s \in Subs :
             /\ sub[s].pc = "idle" => ENABLED ReadHeader(s)
             /\ sub[s].pc = "read_data" => ENABLED ReadData(s)
             /\ sub[s].pc = "read_seq2" => ENABLED ReadSeq2(s))
  /\ [][\A s \in Subs :
          /\ sub'[s].pc # sub[s].pc
               => <<sub[s].pc, sub'[s].pc>> \in
                     {<<"idle", "read_data">>, <<"read_data", "read_seq2">>,
                      <<"read_seq2", "idle">>}
          /\ (ReadHeader(s) /\ hdr.seq <= sub[s].last_sequence)
               => (sub'[s].pc = "idle" /\ ret'[s].kind = "None")]_vars

C10_Witness ==
  \E s, t \in Subs :
    /\ pub.pc = "write_header"
    /\ sub[s].pc = "read_seq2" /\ sub[s].seq1 # pub.last_sequence
    /\ ret[t].why = "stale" /\ ret[t].ovl

\* C36: every subscriber's last_sequence is at most the header's sequence,
\* which is at most the publisher's counter; the header is behind the
\* counter, by one, exactly while write_event is between its increment and
\* its header write.
C36_SequencesAreOrdered ==
  /\ \A s \in Subs : sub[s].last_sequence <= hdr.seq
  /\ hdr.seq <= pub.last_sequence
  /\ hdr.seq # pub.last_sequence <=> pub.pc = "write_header"
  /\ pub.pc = "write_header" => pub.last_sequence = hdr.seq + 1

\* the second publish is past its increment and before its header write,
\* one subscriber has consumed the first frame and the other none
C36_Witness ==
  /\ pub.pc = "write_header"
  /\ pub.last_sequence = 2
  /\ hdr.seq = 1
  /\ sub["s1"].last_sequence = 1
  /\ sub["s2"].last_sequence = 0

\* no event was passed to write_event twice
DistinctPublishes ==
  \A i, j \in 1..Len(published) : published[i] = published[j] => i = j

\* C37: a subscriber returns the payload of a publish at most once: when
\* every publish so far carried a different event, a call that returns an
\* event does not return the event the subscriber's previous call
\* returned.  A call that read publish N's header and publish N+1's payload
\* returns that payload, and the next call returns it again.
C37_PayloadReturnedAtMostOnce ==
  [][\A s \in Subs :
       (/\ sub[s].pc = "read_seq2"
        /\ sub'[s].pc = "idle"
        /\ ret'[s].kind = "event"
        /\ ret[s].kind = "event"
        /\ DistinctPublishes)
         => ret'[s].event # ret[s].event]_vars

(***************************************************************************)
(* Properties of the channel at its edges (SpecEdge).                      *)
(***************************************************************************)
\* C15: a header whose magic or version is not the expected one makes
\* read_event return None at the header read, with last_sequence unchanged,
\* whatever the header's sequence and length and the payload are.
C15_ProtocolMismatchReturnsNone ==
  [][\A s \in Subs :
       (/\ ReadHeader(s)
        /\ sub[s].avail
        /\ hdr.magic # MAGIC \/ hdr.version # VERSION)
         => /\ ret'[s].kind = "None"
            /\ sub'[s].pc = "idle"
            /\ sub'[s].last_sequence = sub[s].last_sequence]_vars

C15_Witness ==
  \E s \in Subs :
    /\ ret[s].why = "protocol"
    /\ hdr.magic = MAGIC /\ hdr.version # VERSION
    /\ hdr.seq > sub[s].last_sequence
    /\ hdr.len \in 1..MAX_PAYLOAD_SIZE
    /\ sub[s].pc = "idle"

\* C16: a publish whose serialised event is longer than the capacity writes
\* exactly the first MAX_PAYLOAD_SIZE bytes of it, increments the sequence
\* as any publish does, commits a header whose length is the capacity, and
\* returns True.
C16_OversizeIsTruncated ==
  /\ [][\A e \in EdgeEvents :
          (WritePayload(e) /\ ~Fits(e))
            => /\ \A i \in 1..MAX_PAYLOAD_SIZE : payload'[i] = json_dumps(e)[i]
               /\ Len(pub'.data) = MAX_PAYLOAD_SIZE
               /\ pub'.last_sequence = pub.last_sequence + 1
               /\ hdr' = hdr]_vars
  /\ [][(WriteHeader /\ ~Fits(published[pub.last_sequence]))
          => /\ hdr'.len = MAX_PAYLOAD_SIZE
             /\ hdr'.seq = hdr.seq + 1
             /\ hdr'.seq = pub.last_sequence
             /\ payload' = payload
             /\ pub'.wret = "True"]_vars

C16_Witness ==
  /\ pub.avail
  /\ pub.pc = "idle"
  /\ pub.wret = "True"
  /\ hdr.seq = 2
  /\ Len(published) = 2
  /\ ~Fits(published[2])
  /\ hdr.len = MAX_PAYLOAD_SIZE
  /\ \A i \in 1..MAX_PAYLOAD_SIZE : payload[i] = json_dumps(published[2])[i]

\* C17: when the bytes read for a frame whose sequence did not change fail
\* to decode, read_event returns None and last_sequence is unchanged; and
\* the first later poll that runs clear of any publish and finds a newer
\* frame that fits the capacity returns that frame and records its sequence.
C17_DecodeFailureSkipsTheFrame ==
  [][\A s \in Subs :
       /\ (/\ ReadSeq2(s)
           /\ hdr.seq = sub[s].seq1
           /\ json_loads(sub[s].data) = JsonError)
            => /\ ret'[s].kind = "None"
               /\ sub'[s].pc = "idle"
               /\ sub'[s].last_sequence = sub[s].last_sequence
       /\ (/\ pub.avail
           /\ ret[s].why = "decode"
           /\ Returns(s)
           /\ ~ret'[s].ovl
           /\ hdr.seq > sub[s].last_sequence
           /\ Fits(published[hdr.seq]))
            => /\ ret'[s].kind = "event"
               /\ ret'[s].event = published[hdr.seq]
               /\ sub'[s].last_sequence = hdr.seq]_vars

\* the previous poll failed to decode frame 1 (a truncated oversized event);
\* this poll has read frame 2, which decodes, and is about to return it
C17_Witness ==
  \E s \in Subs :
    /\ pub.avail
    /\ Len(published) = 2
    /\ ~Fits(published[1])
    /\ ret[s].why = "decode"
    /\ sub[s].last_sequence = 0
    /\ sub[s].pc = "read_seq2"
    /\ sub[s].seq1 = 2 /\ hdr.seq = 2
    /\ ~sub[s].ovl
    /\ json_loads(sub[s].data) = published[2]

\* C18: when the region is unavailable or the event cannot be serialised,
\* the only outcome of a write_event call is the failing one: it returns
\* False and leaves the sequence counter, the header and the payload as they
\* were.
C18_FailedWriteChangesNothing ==
  /\ [][\A e \in EdgeEvents :
          WriteFail(e) => /\ pub'.wret = "False"
                          /\ pub'.last_sequence = pub.last_sequence
                          /\ hdr' = hdr
                          /\ payload' = payload]_vars
  /\ [](\A e \in EdgeEvents :
          (pub.born /\ pub.pc = "idle" /\ (~pub.avail \/ ~Serializable(e)))
            => (ENABLED WriteFail(e) /\ ~ENABLED WritePayload(e)))

\* a write_event call failed on an unserialisable event after a publish
C18_Witness ==
  /\ pub.avail
  /\ pub.wret = "False"
  /\ pub.pc = "idle"
  /\ pub.last_sequence = 1
  /\ hdr.seq = 1
  /\ hdr.len = Len(Serialize(published[1]))

\* C19: once our publisher has committed a frame, the header's length is
\* between 1 and the capacity and is the number of payload bytes the publish
\* that committed it wrote; and a read_event that finds a length of 0 or
\* above the capacity returns None at the header read.
C19_LengthWithinCapacity ==
  /\ []((pub.avail /\ hdr.seq >= 1)
          => /\ hdr.len \in 1..MAX_PAYLOAD_SIZE
             /\ hdr.len = Len(Serialize(published[hdr.seq]))
             /\ pub.pc = "idle" => hdr.seq = Len(published))
  /\ [][WriteHeader => hdr'.len = Len(pub.data)]_vars
  /\ [][\A s \in Subs :
          (ReadHeader(s) /\ (hdr.len = 0 \/ hdr.len > MAX_PAYLOAD_SIZE))
            => /\ ret'[s].kind = "None"
               /\ sub'[s].pc = "idle"
               /\ sub'[s].last_sequence = sub[s].last_sequence]_vars

C19_Witness ==
  \E s, t \in Subs :
    /\ ret[s].why = "length" /\ hdr.len > MAX_PAYLOAD_SIZE
    /\ hdr.seq > sub[s].last_sequence
    /\ sub[s].pc = "idle"
    /\ ret[t].why = "length" /\ ret[t].prevRace = FALSE
    /\ s # t

(***************************************************************************)
(* The subscriber object whose region was missing when it was constructed: *)
(* its read_event and write_event, and the one way it becomes available,   *)
(* a second call of _init_shm (aether_rgb.py:320).                         *)
(***************************************************************************)
\* number of publishes explored around an unavailable subscriber
MaxUnavailPublishes == 1

UnavailEvents == {<<"a">>, NotJson}

\* _init_shm called again on a subscriber that is not available
\* (aether_rgb.py:313-320); last_sequence is not reset
SubReinit(s, opens) ==
  /\ sub[s].born
  /\ sub[s].pc = "idle"
  /\ ~sub[s].avail
  /\ sub' = [sub EXCEPT ![s].avail = InitShm(FALSE, opens)[4]]
  /\ UNCHANGED <<hdr, payload, pub, ret, published, shm_exists, legacy, lret, con, daemon, osc, rgb>>

\* write_event called on a subscriber object (aether_shm.py:118-163):
\* False at line 129 when unavailable; otherwise json.dumps, the increment
\* of last_sequence at line 143, and mmap.write raising on the read-only
\* map, which the except clause turns into False
SubWriteEvent(s, e) ==
  /\ sub[s].born
  /\ sub[s].pc = "idle"
  /\ LET ovl == pub.pc # "idle"
     IN IF ~sub[s].avail
        THEN /\ Return(s, "False", "unavailable", NoEvent, ovl)
             /\ UNCHANGED sub
        ELSE IF ~Serializable(e)
        THEN /\ Return(s, "False", "dumps", NoEvent, ovl)
             /\ UNCHANGED sub
        ELSE /\ Return(s, "False", "readonly", NoEvent, ovl)
             /\ sub' = [sub EXCEPT ![s].last_sequence = @ + 1]
  /\ UNCHANGED <<hdr, payload, pub, published, shm_exists, legacy, lret, con, daemon, osc, rgb>>

PublishUnavail(e) == pub.last_sequence < MaxUnavailPublishes /\ WritePayload(e)

SubWrite(s, e) == sub[s].last_sequence <= MaxUnavailPublishes /\ SubWriteEvent(s, e)

NextUnavail ==
  \/ \E opens \in BOOLEAN : PubConstruct(opens)
  \/ \E e \in UnavailEvents : PublishUnavail(e)
  \/ WriteHeader
  \/ \E s \in Subs, opens \in BOOLEAN : SubConstruct(s, opens)
  \/ \E s \in Subs, opens \in BOOLEAN : SubReinit(s, opens)
  \/ \E s \in Subs : ReadHeader(s)
  \/ \E s \in Subs : ReadData(s)
  \/ \E s \in Subs : ReadSeq2(s)
  \/ \E s \in Subs, e \in UnavailEvents : SubWrite(s, e)

SpecUnavail == InitLife /\ [][NextUnavail]_vars

\* C11: a subscriber constructed while the region is missing or cannot be
\* opened is not available; it stays so until _init_shm is called on it
\* again; and while it is not available every read_event returns None and
\* every write_event returns False, changing neither the object nor the
\* region.
C11_UnavailableSubscriberIsInert ==
  [][\A s \in Subs :
       /\ \A opens \in BOOLEAN :
            (SubConstruct(s, opens) /\ ~(shm_exists /\ opens)) => ~sub'[s].avail
       /\ (sub[s].born /\ ~sub[s].avail /\ ~(\E opens \in BOOLEAN : SubReinit(s, opens)))
            => ~sub'[s].avail
       /\ (ReadHeader(s) /\ ~sub[s].avail)
            => /\ ret'[s].kind = "None"
               /\ sub'[s] = sub[s]
               /\ UNCHANGED <<hdr, payload, shm_exists>>
       /\ \A e \in UnavailEvents :
            (SubWriteEvent(s, e) /\ ~sub[s].avail)
              => /\ ret'[s].kind = "False"
                 /\ sub'[s] = sub[s]
                 /\ UNCHANGED <<hdr, payload, shm_exists>>]_vars

\* the region exists by now and holds a frame; s and t were constructed
\* before it did: s has polled and t has tried to write
C11_Witness ==
  \E s, t \in Subs :
    /\ shm_exists /\ hdr.seq = 1 /\ pub.pc = "idle"
    /\ sub[s].born /\ ~sub[s].avail
    /\ ret[s].kind = "None" /\ ret[s].why = "unavailable"
    /\ sub[t].born /\ ~sub[t].avail
    /\ ret[t].kind = "False" /\ ret[t].why = "unavailable"

(***************************************************************************)
(* The applications around the channel: the daemon's send_event            *)
(* (aether_daemon.py:161-190), which publishes to the region and falls     *)
(* back to the file, and the consumers' check_for_events (aether.py:       *)
(* 743-774, aether_rgb.py:304-340), which poll the region and then the     *)
(* file.  s1 is the visualizer, s2 the RGB controller.  The fallback file  *)
(* is written in two steps (open "w" truncates it, json.dump fills it) and *)
(* read in two (getmtime, then open and json.load).  The file's            *)
(* modification time is the number of the write_event_legacy call that     *)
(* last touched it.                                                        *)
(***************************************************************************)
\* publishes to the region explored with the consumers
MaxConPublishes == 1
\* write_event_legacy calls explored
MaxLegacyWrites == 2
\* the RGB controller re-initialises its subscriber every RetryEvery-th
\* poll that finds it unavailable (75 in aether_rgb.py:317)
RetryEvery == 2

Visualizer == "s1"

Rgb == "s2"

ConEvents == {<<"a">>, <<"b">>}

\* read_event has been entered by this poll and has not returned yet
Pending == [kind |-> "pending", why |-> "", event |-> NoEvent, ovl |-> FALSE,
            prevRace |-> FALSE]

\* the content of the file between open(..., "w") and json.dump: json.load
\* raises on it
Truncated == JsonError

\* the daemon is started again after a start in which it could not open
\* its region (aether_daemon.py:104)
DaemonRestart(opens) ==
  /\ pub.born
  /\ pub.pc = "idle"
  /\ ~pub.avail
  /\ LET r == InitShm(TRUE, opens)
     IN /\ shm_exists' = r[1]
        /\ hdr' = r[2]
        /\ payload' = r[3]
        /\ pub' = [PubInit EXCEPT !.avail = r[4]]
  /\ UNCHANGED <<sub, ret, published, legacy, lret, con, daemon, osc, rgb>>

\* send_event, region available: write_event (aether_daemon.py:185-186)
SendRegion(e) == pub.last_sequence < MaxConPublishes /\ WritePayload(e)

\* send_event, region unavailable: write_event_legacy, open(..., "w")
\* (aether_daemon.py:189-190, aether_shm.py:263)
SendLegacyOpen(e) ==
  /\ pub.born
  /\ pub.pc = "idle"
  /\ ~pub.avail
  /\ legacy.mtime < MaxLegacyWrites
  /\ legacy' = [exists |-> TRUE, event |-> Truncated, mtime |-> legacy.mtime + 1]
  /\ pub' = [pub EXCEPT !.pc = "legacy_dump", !.data = json_dumps(e)]
  /\ UNCHANGED <<hdr, payload, sub, ret, published, shm_exists, lret, con, daemon, osc, rgb>>

\* write_event_legacy, json.dump and close (aether_shm.py:264-265)
SendLegacyDump ==
  /\ pub.pc = "legacy_dump"
  /\ legacy' = [legacy EXCEPT !.event = json_loads(pub.data)]
  /\ pub' = [pub EXCEPT !.pc = "idle", !.data = <<>>]
  /\ UNCHANGED <<hdr, payload, sub, ret, published, shm_exists, lret, con, daemon, osc, rgb>>

\* check_for_events up to the call of read_event: the RGB controller's
\* retry of _init_shm (aether_rgb.py:313-323), then is_available()
CheckBegin(c) ==
  /\ sub[c].born
  /\ sub[c].pc = "idle"
  /\ con[c].pc = "idle"
  /\ LET retry == c = Rgb /\ ~sub[c].avail
         counter == IF retry THEN (con[c].shm_retry_counter + 1) % RetryEvery
                             ELSE con[c].shm_retry_counter
         avail == IF retry /\ counter = 0 THEN InitShm(FALSE, TRUE)[4] ELSE sub[c].avail
     IN /\ sub' = [sub EXCEPT ![c].avail = avail]
        /\ con' = [con EXCEPT ![c] = [@ EXCEPT !.pc = IF avail THEN "shm" ELSE "legacy",
                                               !.shm_retry_counter = counter,
                                               !.took = "none",
                                               !.event = NoEvent]]
        /\ ret' = IF avail THEN [ret EXCEPT ![c] = Pending] ELSE ret
  /\ UNCHANGED <<hdr, payload, pub, published, shm_exists, legacy, lret, daemon, osc, rgb>>

\* the call of read_event (aether.py:749, aether_rgb.py:328)
CheckReadEvent(c) ==
  /\ con[c].pc = "shm"
  /\ ret[c] = Pending
  /\ ReadHeader(c)

\* the fallback is consulted even after read_event has returned an event
CheckAfterShmAlwaysLegacy(c) ==
  /\ con[c].pc = "shm"
  /\ ret[c].kind # "pending"
  /\ sub[c].pc = "idle"
  /\ con' = [con EXCEPT ![c].pc = "legacy"]
  /\ UNCHANGED <<hdr, payload, pub, sub, ret, published, shm_exists, legacy, lret, daemon, osc, rgb>>

\* an event from the region also moves the fallback file's cursor
CheckAfterShmAdvancesCursor(c) ==
  /\ con[c].pc = "shm"
  /\ ret[c].kind # "pending"
  /\ sub[c].pc = "idle"
  /\ con' = [con EXCEPT ![c] =
               IF ret[c].kind = "event"
               THEN [@ EXCEPT !.pc = "idle", !.took = "shm", !.event = ret[c].event,
                              !.last_event_time = legacy.mtime,
                              !.processed = TRUE]
               ELSE [@ EXCEPT !.pc = "legacy"]]
  /\ UNCHANGED <<hdr, payload, pub, sub, ret, published, shm_exists, legacy, lret, daemon, osc, rgb>>

\* read_event has returned: an event is processed, None sends the poll to
\* the fallback file (aether.py:750-755, 762; aether_rgb.py:335-336, 342)
CheckAfterShm(c) ==
  /\ con[c].pc = "shm"
  /\ ret[c].kind # "pending"
  /\ sub[c].pc = "idle"
  /\ con' = [con EXCEPT ![c] =
               IF ret[c].kind = "event"
               THEN [@ EXCEPT !.pc = "idle", !.took = "shm", !.event = ret[c].event,
                              !.processed = TRUE]
               ELSE [@ EXCEPT !.pc = "legacy"]]
  /\ UNCHANGED <<hdr, payload, pub, sub, ret, published, shm_exists, legacy, lret, daemon, osc, rgb>>

\* read_event_legacy: os.path.exists and os.path.getmtime (aether_shm.py:278-281)
LegacyStat(c) ==
  /\ con[c].pc = "legacy"
  /\ IF ~legacy.exists
     THEN /\ lret' = [lret EXCEPT ![c] = NoLegacy]
          /\ con' = [con EXCEPT ![c].pc = "idle"]
     ELSE /\ lret' = lret
          /\ con' = [con EXCEPT ![c] = [@ EXCEPT !.pc = "legacy_load", !.mt = legacy.mtime]]
  /\ UNCHANGED <<hdr, payload, pub, sub, ret, published, shm_exists, legacy, daemon, osc, rgb>>

\* ">=" for ">": a file that was not modified is taken again
LegacyLoadGe(c) ==
  /\ con[c].pc = "legacy_load"
  /\ LET event == json_loads(json_dumps(legacy.event))
         r == IF event = JsonError THEN NoLegacy
                                   ELSE [event |-> event, mtime |-> con[c].mt]
         take == r.event # NoEvent /\ r.mtime >= con[c].last_event_time
     IN /\ lret' = [lret EXCEPT ![c] = r]
        /\ con' = [con EXCEPT ![c] =
                     IF take
                     THEN [@ EXCEPT !.pc = "idle", !.last_event_time = r.mtime,
                                    !.took = "legacy", !.event = r.event,
                                    !.processed = TRUE]
                     ELSE [@ EXCEPT !.pc = "idle"]]
  /\ UNCHANGED <<hdr, payload, pub, sub, ret, published, shm_exists, legacy, daemon, osc, rgb>>

\* read_event_legacy: open and json.load (aether_shm.py:282-286), then the
\* consumer's freshness test (aether.py:756-759, aether_rgb.py:337-340)
LegacyLoad(c) ==
  /\ con[c].pc = "legacy_load"
  /\ LET event == json_loads(json_dumps(legacy.event))
         r == IF event = JsonError THEN NoLegacy
                                   ELSE [event |-> event, mtime |-> con[c].mt]
         take == r.event # NoEvent /\ r.mtime > con[c].last_event_time
     IN /\ lret' = [lret EXCEPT ![c] = r]
        /\ con' = [con EXCEPT ![c] =
                     IF take
                     THEN [@ EXCEPT !.pc = "idle", !.last_event_time = r.mtime,
                                    !.took = "legacy", !.event = r.event,
                                    !.processed = TRUE]
                     ELSE [@ EXCEPT !.pc = "idle"]]
  /\ UNCHANGED <<hdr, payload, pub, sub, ret, published, shm_exists, legacy, daemon, osc, rgb>>

NextConsumer ==
  \/ \E opens \in BOOLEAN : PubConstruct(opens)
  \/ \E opens \in BOOLEAN : DaemonRestart(opens)
  \/ \E e \in ConEvents : SendRegion(e)
  \/ WriteHeader
  \/ \E e \in ConEvents : SendLegacyOpen(e)
  \/ SendLegacyDump
  \/ \E c \in Subs : SubConstruct(c, TRUE)
  \/ \E c \in Subs : CheckBegin(c)
  \/ \E c \in Subs : CheckReadEvent(c)
  \/ \E c \in Subs : ReadData(c)
  \/ \E c \in Subs : ReadSeq2(c)
  \/ \E c \in Subs : CheckAfterShm(c)
  \/ \E c \in Subs : LegacyStat(c)
  \/ \E c \in Subs : LegacyLoad(c)

SpecConsumer == InitLife /\ [][NextConsumer]_vars

\* the steps of the daemon and of consumer c
DaemonStep ==
  \/ \E opens \in BOOLEAN : PubConstruct(opens)
  \/ \E opens \in BOOLEAN : DaemonRestart(opens)
  \/ \E e \in ConEvents : SendRegion(e)
  \/ WriteHeader
  \/ \E e \in ConEvents : SendLegacyOpen(e)
  \/ SendLegacyDump

ConsumerStep(c) ==
  \/ SubConstruct(c, TRUE)
  \/ CheckBegin(c)
  \/ CheckReadEvent(c)
  \/ ReadData(c)
  \/ ReadSeq2(c)
  \/ CheckAfterShm(c)
  \/ LegacyStat(c)
  \/ LegacyLoad(c)

\* the daemon's run loop (aether_daemon.py:230-261) and each consumer's
\* frame loop keep running: no process that can take a step waits forever
SpecConsumerFair ==
  /\ SpecConsumer
  /\ WF_vars(DaemonStep)
  /\ \A c \in Subs : WF_vars(ConsumerStep(c))

\* a poll of consumer c ends having taken the fallback file's event
TakesLegacy(c) == con[c].pc = "legacy_load" /\ con'[c].took = "legacy"

\* C12: a consumer whose subscriber is unavailable because it was started
\* before the region existed eventually processes an event once the daemon
\* has its region and has published to it.
C12_EarlyConsumerEventuallyProcesses ==
  \A c \in Subs :
    (sub[c].born /\ ~sub[c].avail /\ pub.avail /\ hdr.seq >= 1) ~> con[c].processed

\* the same for the RGB controller alone, which retries _init_shm
C12_RgbEventuallyProcesses ==
  (sub[Rgb].born /\ ~sub[Rgb].avail /\ pub.avail /\ hdr.seq >= 1) ~> con[Rgb].processed

C14_EachModificationDeliveredOnce ==
  [][\A c \in Subs :
       TakesLegacy(c)
         => /\ con[c].mt > con[c].last_event_time
            /\ con'[c].last_event_time = con[c].mt
            /\ legacy.mtime = con[c].mt
            /\ con[c].last_event_time >= 1 => con[c].mt = con[c].last_event_time + 1]_vars

\* C14, amended: a consumer takes the file's event only when the
\* modification time it read is greater than the one it recorded at its
\* last take, and then records it; a file whose modification time is not
\* greater is not taken, and the recorded time changes in no other way.
C14_TakenOnlyWhenModified ==
  [][\A c \in Subs :
       /\ TakesLegacy(c)
            => /\ con[c].mt > con[c].last_event_time
               /\ con'[c].last_event_time = con[c].mt
               /\ con'[c].event = json_loads(json_dumps(legacy.event))
       /\ (LegacyLoad(c) /\ con[c].mt <= con[c].last_event_time)
            => /\ con'[c].took = "none"
               /\ con'[c].last_event_time = con[c].last_event_time
       /\ con'[c].last_event_time # con[c].last_event_time => TakesLegacy(c)]_vars

\* a poll has read the file it took before, unmodified, and not taken it
C14_Witness ==
  \E c \in Subs :
    /\ con[c].pc = "idle"
    /\ con[c].took = "none"
    /\ legacy.mtime >= 1
    /\ con[c].last_event_time = legacy.mtime
    /\ lret[c].mtime = legacy.mtime
    /\ lret[c].event = legacy.event

\* the values read_event_legacy and the freshness test work on: the result
\* of the last read of the file, the modification time read, the cursor
FileCursor(c) == <<lret[c], con[c].mt, con[c].last_event_time>>

\* C31: a poll processes at most one event and the region comes first: a
\* poll turns to the fallback file only when the region is unavailable or
\* read_event has returned None; the step that processes an event ends the
\* poll; and up to and including the processing of an event from the
\* region the poll neither reads the file nor moves its cursor.
C31_RegionEventTakesPrecedence ==
  [][\A c \in Subs :
       /\ (con[c].pc # "legacy" /\ con'[c].pc = "legacy")
            => (~sub'[c].avail \/ ret[c].kind = "None")
       /\ (con'[c].took # con[c].took /\ con'[c].took # "none")
            => /\ con[c].took = "none"
               /\ con[c].pc \in {"shm", "legacy_load"}
               /\ con'[c].pc = "idle"
       /\ (con[c].pc = "shm" /\ con'[c].took = "shm")
            => /\ ret[c].kind = "event"
               /\ con'[c].event = ret[c].event
       /\ con[c].pc \in {"idle", "shm"} => FileCursor(c)' = FileCursor(c)]_vars

\* consumer c has processed an event from the region in a poll while the
\* fallback file held a complete event newer than its cursor
C31_Witness ==
  \E c \in Subs :
    /\ con[c].pc = "idle"
    /\ con[c].took = "shm"
    /\ con[c].event \in ConEvents
    /\ legacy.exists
    /\ legacy.event \in ConEvents
    /\ legacy.mtime > con[c].last_event_time

\* C35: a consumer processes events in the order the daemon emitted them.
\* The daemon writes the fallback file only while it has no region and
\* publishes to the region only once it has one, so here every event of
\* the file was emitted before every frame of the region: a consumer that
\* has consumed a frame of the region must not take the file's event
\* afterwards.  It does, in the first poll that finds no new frame.
C35_ProcessedInEmissionOrder ==
  [][\A c \in Subs : TakesLegacy(c) => sub[c].last_sequence = 0]_vars

\* every write of the fallback file precedes every publish to the region
FileWritesPrecedePublishes == [][legacy' # legacy => published = <<>>]_vars

(***************************************************************************)
(* The daemon's band analysis, get_frequency_bands (aether_daemon.py:      *)
(* 121-159), in fixed point.  A frame is given by the magnitudes of its    *)
(* FFT bins; energies are integers; log10 is taken to the tenth of a      *)
(* decade below; a band value v in [0.0, 1.0] is the integer Scale * v,    *)
(* rounded down, which makes the comparisons with 0.05, 0.10 and 0.15      *)
(* exact.                                                                  *)
(***************************************************************************)
\* number of non-zero magnitudes a bin can take
MagLevels == 3

\* band values are counted in 1/Scale
Scale == 20

BandNames == <<"sub_bass", "bass", "low_mid", "mid", "high_mid", "treble", "sparkle">>

FREQUENCY_BANDS ==
  [sub_bass |-> <<20, 60>>, bass |-> <<60, 250>>, low_mid |-> <<250, 500>>,
   mid |-> <<500, 1000>>, high_mid |-> <<1000, 2000>>, treble |-> <<2000, 4000>>,
   sparkle |-> <<4000, 8000>>]

AUDIBLE_FREQ_MIN == 20

AUDIBLE_FREQ_MAX == 8000

\* ten times LOG_ENERGY_MIN_BAND (5.5) and LOG_ENERGY_MIN_TOTAL (6.0)
LOG_ENERGY_MIN_BAND_x10 == 55

LOG_ENERGY_MIN_TOTAL_x10 == 60

LOG_ENERGY_RANGE_BAND == 2

LOG_ENERGY_RANGE_TOTAL == 2

\* the frequencies of the bins of a frame: one below the audible range
\* and the lower edge of every band
BinFreqs == <<10, 20, 60, 250, 500, 1000, 2000, 4000>>

Bins == 1..Len(BinFreqs)

\* a faint, a moderate and a loud magnitude, then one more of each kind
MagTable == <<1, 1000000, 200000000, 40000000, 3, 316228>>

Mags == {0} \cup {MagTable[i] : i \in 1..MagLevels}

Frames == [Bins -> Mags]

\* the least integers that are at least 10^(k/10), k = 0..90
TenthDecades ==
  <<1, 2, 2, 2, 3, 4, 4, 6, 7, 8, 10, 13, 16, 20, 26, 32, 40, 51, 64, 80,
    100, 126, 159, 200, 252, 317, 399, 502, 631, 795, 1000, 1259, 1585,
    1996, 2512, 3163, 3982, 5012, 6310, 7944, 10000, 12590, 15849, 19953,
    25119, 31623, 39811, 50119, 63096, 79433, 100000, 125893, 158490,
    199527, 251189, 316228, 398108, 501188, 630958, 794329, 1000000,
    1258926, 1584894, 1995263, 2511887, 3162278, 3981072, 5011873, 6309574,
    7943283, 10000000, 12589255, 15848932, 19952624, 25118865, 31622777,
    39810718, 50118724, 63095735, 79432824, 100000000, 125892542, 158489320,
    199526232, 251188644, 316227767, 398107171, 501187234, 630957345,
    794328235, 1000000000>>

\* floor(10 * log10(energy)) for an integer energy >= 1
Log10_x10(energy) ==
  Cardinality({i \in 1..Len(TenthDecades) : energy >= TenthDecades[i]}) - 1

RECURSIVE SumOver(_, _)
\* np.sum(fft_magnitude[mask]), mask given as a set of bins
SumOver(fft_magnitude, mask) ==
  IF mask = {} THEN 0
  ELSE LET b == CHOOSE x \in mask : TRUE
       IN fft_magnitude[b] + SumOver(fft_magnitude, mask \ {b})

Min(a, b) == IF a <= b THEN a ELSE b

Max(a, b) == IF a >= b THEN a ELSE b

\* the upper limit is forgotten
ClampLowOnly(v) == Max(0, v)

\* max(0.0, min(1.0, normalized))
Clamp(v) == Max(0, Min(Scale, v))

\* (log10(energy) - min) / range, in 1/Scale, rounded down
Normalized(energy, min_x10, range) ==
  ((Log10_x10(energy) - min_x10) * Scale) \div (10 * range)

\* lines 135-142, 150-157: zero energy gives 0.0, otherwise the clamped
\* log-rescaled value
Rescale(energy, min_x10, range) ==
  IF energy > 0 THEN Clamp(Normalized(energy, min_x10, range)) ELSE 0

BandMask(low, high) == {b \in Bins : BinFreqs[b] >= low /\ BinFreqs[b] < high}

BandEnergy(fft_magnitude, name) ==
  SumOver(fft_magnitude, BandMask(FREQUENCY_BANDS[name][1], FREQUENCY_BANDS[name][2]))

TotalEnergy(fft_magnitude) ==
  SumOver(fft_magnitude, BandMask(AUDIBLE_FREQ_MIN, AUDIBLE_FREQ_MAX))

BandKeys == {BandNames[i] : i \in 1..Len(BandNames)}

get_frequency_bands(fft_magnitude) ==
  [k \in BandKeys \cup {"total"} |->
     IF k = "total"
     THEN Rescale(TotalEnergy(fft_magnitude), LOG_ENERGY_MIN_TOTAL_x10, LOG_ENERGY_RANGE_TOTAL)
     ELSE Rescale(BandEnergy(fft_magnitude, k), LOG_ENERGY_MIN_BAND_x10, LOG_ENERGY_RANGE_BAND)]

\* the daemon has read one full frame of any content (aether_daemon.py:232-238)
InitBands ==
  /\ hdr = ZeroHeader
  /\ payload = ZeroPayload
  /\ pub = PubInit
  /\ sub = [s \in Subs |-> SubInit]
  /\ ret = [s \in Subs |-> RetInit]
  /\ published = <<>>
  /\ shm_exists = TRUE
  /\ legacy = NoFile
  /\ lret = [s \in Subs |-> NoLegacy]
  /\ con = [c \in Subs |-> ConInit]
  /\ \E f \in Frames : daemon = [DaemonInit EXCEPT !.frame = f]
  /\ osc = OscInit
  /\ rgb = RgbInit

\* bands = self.get_frequency_bands(audio_data), aether_daemon.py:241
Analyze ==
  /\ daemon.frame # NoFrame
  /\ daemon.bands = NoBands
  /\ daemon' = [daemon EXCEPT !.bands = get_frequency_bands(daemon.frame)]
  /\ UNCHANGED <<hdr, payload, pub, sub, ret, published, shm_exists, legacy, lret, con, osc, rgb>>

NextBands == Analyze

SpecBands == InitBands /\ [][NextBands]_vars

\* C20: for every frame, the all-zero one included, each of the 7 band
\* values and total is in [0.0, 1.0]; it is 0.0 when the magnitudes under
\* its mask sum to zero, and otherwise the log-rescaled value where that
\* lies in the window and the nearer end of the window where it does not.
C20_BandsWithinUnitInterval ==
  daemon.bands # NoBands =>
    /\ DOMAIN daemon.bands = BandKeys \cup {"total"}
    /\ \A k \in DOMAIN daemon.bands :
         LET energy == IF k = "total" THEN TotalEnergy(daemon.frame)
                                      ELSE BandEnergy(daemon.frame, k)
             v == IF k = "total"
                  THEN Normalized(energy, LOG_ENERGY_MIN_TOTAL_x10, LOG_ENERGY_RANGE_TOTAL)
                  ELSE Normalized(energy, LOG_ENERGY_MIN_BAND_x10, LOG_ENERGY_RANGE_BAND)
         IN /\ daemon.bands[k] \in 0..Scale
            /\ energy = 0 => daemon.bands[k] = 0
            /\ (energy > 0 /\ v < 0) => daemon.bands[k] = 0
            /\ (energy > 0 /\ v > Scale) => daemon.bands[k] = Scale
            /\ (energy > 0 /\ v \in 0..Scale) => daemon.bands[k] = v

\* one analysed frame with a silent band, a band below the window, a band
\* inside it and a band above it
C20_Witness ==
  /\ daemon.bands # NoBands
  /\ BandEnergy(daemon.frame, "sub_bass") = 0 /\ daemon.bands["sub_bass"] = 0
  /\ BandEnergy(daemon.frame, "bass") > 0
  /\ Normalized(BandEnergy(daemon.frame, "bass"), LOG_ENERGY_MIN_BAND_x10, LOG_ENERGY_RANGE_BAND) < 0
  /\ daemon.bands["bass"] = 0
  /\ daemon.bands["mid"] \in 1..(Scale - 1)
  /\ Normalized(BandEnergy(daemon.frame, "treble"), LOG_ENERGY_MIN_BAND_x10, LOG_ENERGY_RANGE_BAND) > Scale
  /\ daemon.bands["treble"] = Scale
  /\ daemon.bands["total"] = Scale

(***************************************************************************)
(* The daemon's capture loop, run (aether_daemon.py:199-261), with         *)
(* send_event (aether_daemon.py:161-190): each full frame is analysed,     *)
(* frames that are loud enough become an event, and the event goes to the  *)
(* region or, without one, to the fallback file.  The loop's locals are    *)
(* dead at the top of the loop and are modelled as cleared there;          *)
(* daemon.outcome records how the last iteration ended.                    *)
(***************************************************************************)
MaxFrames == 2

BAND_CENTER_FREQUENCIES ==
  [sub_bass |-> 40, bass |-> 150, low_mid |-> 375, mid |-> 750,
   high_mid |-> 1500, treble |-> 3000, sparkle |-> 6000]

DEFAULT_FREQUENCY == 440

\* n/100 in 1/Scale, exact for the multiples of 0.05
Hundredths(n) == (n * Scale) \div 100

\* v < n/100: a value rounded down is below a multiple of 1/Scale exactly
\* when the value is
Below(v, n) == v < Hundredths(n)

\* v > n/100: 10 * log10 of an integer energy is a whole number only at the
\* powers of ten, so an unclamped value is never a multiple of 1/Scale
\* other than a multiple of 1/2 and is above n/100 exactly when it is
\* at least n/100 rounded down
Above(v, n) == IF (2 * n) % 100 = 0 THEN v > Hundredths(n) ELSE v >= Hundredths(n)

\* the bins that carry sound in the frames of the loop
LoudBins == 2..5

\* a silent bin, a bin just inside the band window, a bin well inside it
LoopMags == {0, 500000, 700000}

LoopFrames ==
  {[b \in Bins |-> IF b \in LoudBins THEN g[b] ELSE 0] : g \in [LoudBins -> LoopMags]}

\* stdout.read returned fewer bytes than asked for: none, or all but the last
ShortFrames == {<<>>, [b \in 1..(Len(BinFreqs) - 1) |-> 0]}

\* len(raw_data) < bytes_to_read
IsShort(raw_data) == Len(raw_data) < Len(BinFreqs)

RECURSIVE MaxBandFrom(_, _, _)
\* max(..., key=value) walks the items in dict order and keeps the first of
\* the greatest
MaxBandFrom(bands, i, best) ==
  IF i > Len(BandNames) THEN best
  ELSE MaxBandFrom(bands, i + 1,
         IF bands[BandNames[i]] > bands[best] THEN BandNames[i] ELSE best)

\* ties go to the last band
max_band_last_wins(bands) ==
  BandNames[CHOOSE i \in 1..Len(BandNames) :
              /\ \A j \in 1..Len(BandNames) : bands[BandNames[j]] <= bands[BandNames[i]]
              /\ \A j \in (i + 1)..Len(BandNames) : bands[BandNames[j]] < bands[BandNames[i]]]

\* max(((k, v) for k, v in bands.items() if k != "total"), key=lambda x: x[1])
max_band(bands) == MaxBandFrom(bands, 2, BandNames[1])

\* the gate closes only below the loop's own threshold of 0.05
IsNoiseFloorBelowLoopThreshold(bands) ==
  Below(bands["total"], 5) /\ Below(bands[max_band(bands)], 15)

\* total_energy < 0.10 and band_value < 0.15
IsNoiseFloor(bands) ==
  Below(bands["total"], 10) /\ Below(bands[max_band(bands)], 15)

\* the dict send_event builds (aether_daemon.py:178-183)
EventData(bands) ==
  LET band_name == max_band(bands)
  IN [type |-> "audio",
      bands |-> bands,
      frequency |-> IF band_name \in DOMAIN BAND_CENTER_FREQUENCIES
                    THEN BAND_CENTER_FREQUENCIES[band_name]
                    ELSE DEFAULT_FREQUENCY,
      amplitude |-> Max(bands["total"], bands[band_name])]

\* the body json.dumps gives the dict: one token that names all its contents
Encode(event_data) == <<ToString(event_data)>>

\* a short read is skipped and the loop reads again
RunReadContinues(raw_data) ==
  /\ pub.born
  /\ daemon.pc = "read"
  /\ daemon.nframes < MaxFrames
  /\ daemon' = [daemon EXCEPT !.frame = raw_data,
                              !.bands = NoBands,
                              !.nframes = daemon.nframes + 1,
                              !.outcome = "none",
                              !.pc = IF IsShort(raw_data) THEN "read" ELSE "analyze"]
  /\ UNCHANGED <<hdr, payload, pub, sub, ret, published, shm_exists, legacy, lret, con, osc, rgb>>

\* raw_data = self.process.stdout.read(bytes_to_read); a short read breaks
\* out of the loop (aether_daemon.py:232-235)
RunRead(raw_data) ==
  /\ pub.born
  /\ daemon.pc = "read"
  /\ daemon.nframes < MaxFrames
  /\ daemon' = [daemon EXCEPT !.frame = raw_data,
                              !.bands = NoBands,
                              !.nframes = daemon.nframes + 1,
                              !.outcome = "none",
                              !.pc = IF IsShort(raw_data) THEN "stopped" ELSE "analyze"]
  /\ UNCHANGED <<hdr, payload, pub, sub, ret, published, shm_exists, legacy, lret, con, osc, rgb>>

\* send_event is called for every frame
RunAnalyzeNoThreshold ==
  /\ daemon.pc = "analyze"
  /\ daemon' = [daemon EXCEPT !.bands = get_frequency_bands(daemon.frame),
                              !.pc = "send_event"]
  /\ UNCHANGED <<hdr, payload, pub, sub, ret, published, shm_exists, legacy, lret, con, osc, rgb>>

\* bands = self.get_frequency_bands(audio_data); if total > 0.05: ...
\* self.send_event(bands) (aether_daemon.py:238-259); the bands of a frame
\* that is not sent stay bound until the next frame is read
RunAnalyze ==
  /\ daemon.pc = "analyze"
  /\ LET bands == get_frequency_bands(daemon.frame)
     IN IF Above(bands["total"], 5)
        THEN daemon' = [daemon EXCEPT !.bands = bands, !.pc = "send_event"]
        ELSE daemon' = [daemon EXCEPT !.frame = NoFrame, !.bands = bands,
                                      !.outcome = "quiet", !.pc = "read"]
  /\ UNCHANGED <<hdr, payload, pub, sub, ret, published, shm_exists, legacy, lret, con, osc, rgb>>

Snapshot ==
  [hdr |-> hdr, payload |-> payload, legacy |-> legacy, npub |-> Len(published)]

\* send_event up to the choice of transport (aether_daemon.py:161-185, 189)
SendEvent ==
  /\ daemon.pc = "send_event"
  /\ IF IsNoiseFloor(daemon.bands)
     THEN /\ daemon' = [daemon EXCEPT !.frame = NoFrame, !.bands = NoBands,
                                      !.outcome = "returned", !.pc = "read"]
          /\ pub' = pub
     ELSE /\ daemon' = [daemon EXCEPT !.event_data = EventData(daemon.bands),
                                      !.before = Snapshot,
                                      !.pc = IF pub.avail THEN "write_event"
                                                          ELSE "write_event_legacy"]
          /\ pub' = [pub EXCEPT !.wret = "none"]
  /\ UNCHANGED <<hdr, payload, sub, ret, published, shm_exists, legacy, lret, con, osc, rgb>>

\* self.shm.write_event(event_data), first half
RunWritePayload ==
  /\ daemon.pc = "write_event"
  /\ pub.wret = "none"
  /\ WritePayload(Encode(daemon.event_data))

\* self.shm.write_event(event_data), second half
RunWriteHeader == daemon.pc = "write_event" /\ WriteHeader

\* the event is written to the fallback file whatever write_event returned
RunAfterWriteAlsoFile ==
  /\ daemon.pc = "write_event"
  /\ pub.pc = "idle"
  /\ pub.wret # "none"
  /\ daemon' = [daemon EXCEPT !.pc = "write_event_legacy"]
  /\ UNCHANGED <<hdr, payload, pub, sub, ret, published, shm_exists, legacy, lret, con, osc, rgb>>

\* if not self.shm.write_event(event_data): fall back (aether_daemon.py:186-187)
RunAfterWrite ==
  /\ daemon.pc = "write_event"
  /\ pub.pc = "idle"
  /\ pub.wret # "none"
  /\ IF pub.wret = "True"
     THEN daemon' = [daemon EXCEPT !.frame = NoFrame, !.bands = NoBands,
                                   !.event_data = NoEventData,
                                   !.before = NoSnapshot,
                                   !.outcome = "region", !.pc = "read"]
     ELSE daemon' = [daemon EXCEPT !.pc = "write_event_legacy"]
  /\ UNCHANGED <<hdr, payload, pub, sub, ret, published, shm_exists, legacy, lret, con, osc, rgb>>

\* self.shm.write_event_legacy(event_data) (aether_daemon.py:187, 190;
\* aether_shm.py:257-268)
RunWriteLegacy ==
  /\ daemon.pc = "write_event_legacy"
  /\ legacy' = [exists |-> TRUE, event |-> Encode(daemon.event_data),
                mtime |-> legacy.mtime + 1]
  /\ daemon' = [daemon EXCEPT !.frame = NoFrame, !.bands = NoBands,
                              !.event_data = NoEventData,
                              !.before = NoSnapshot,
                              !.outcome = "file", !.pc = "read"]
  /\ UNCHANGED <<hdr, payload, pub, sub, ret, published, shm_exists, lret, con, osc, rgb>>

\* write_event_legacy when open(LEGACY_EVENT_FILE, "w") raises: the except
\* clause returns False, which send_event ignores (aether_shm.py:262-267)
RunWriteLegacyFails ==
  /\ daemon.pc = "write_event_legacy"
  /\ daemon' = [daemon EXCEPT !.frame = NoFrame, !.bands = NoBands,
                              !.event_data = NoEventData,
                              !.before = NoSnapshot,
                              !.outcome = "lost", !.pc = "read"]
  /\ UNCHANGED <<hdr, payload, pub, sub, ret, published, shm_exists, legacy, lret, con, osc, rgb>>

NextRun ==
  \/ \E opens \in BOOLEAN : PubConstruct(opens)
  \/ \E raw_data \in LoopFrames \cup ShortFrames : RunRead(raw_data)
  \/ RunAnalyze
  \/ SendEvent
  \/ RunWritePayload
  \/ RunWriteHeader
  \/ RunAfterWrite
  \/ RunWriteLegacy
  \/ RunWriteLegacyFails

SpecRun == InitLife /\ [][NextRun]_vars

\* the band whose value no other band exceeds and that comes first among
\* the bands of that value
IsDominant(bands, name) ==
  \E i \in 1..Len(BandNames) :
    /\ BandNames[i] = name
    /\ \A j \in 1..Len(BandNames) : bands[BandNames[j]] <= bands[name]
    /\ \A j \in 1..(i - 1) : bands[BandNames[j]] < bands[name]

\* frequency and amplitude of an event agree with its bands
WellFormedEvent(event_data) ==
  \E name \in BandKeys :
    /\ IsDominant(event_data.bands, name)
    /\ event_data.frequency = BAND_CENTER_FREQUENCIES[name]
    /\ event_data.frequency \in {40, 150, 375, 750, 1500, 3000, 6000}
    /\ event_data.amplitude >= event_data.bands["total"]
    /\ event_data.amplitude >= event_data.bands[name]
    /\ event_data.amplitude \in {event_data.bands["total"], event_data.bands[name]}

\* C21: every event that goes to the region or to the fallback file has as
\* frequency the table entry of the first of the greatest of the 7 named
\* bands, one of the 7 constants, and as amplitude the larger of total and
\* that band's value.
C21_FrequencyAndAmplitudeOfDominantBand ==
  [][/\ published' # published =>
          /\ published' = Append(published, Encode(daemon.event_data))
          /\ WellFormedEvent(daemon.event_data)
     /\ legacy' # legacy =>
          /\ legacy'.event = Encode(daemon.event_data)
          /\ WellFormedEvent(daemon.event_data)]_vars

\* an event is being written to the region whose two greatest bands are
\* equal, the first of them named by the frequency, and whose total
\* exceeds them; and one went to the region before whose amplitude is its
\* dominant band's value
C21_Witness ==
  /\ pub.pc = "write_header"
  /\ Len(published) = 2
  /\ published[2] = Encode(daemon.event_data)
  /\ daemon.event_data.bands["bass"] = daemon.event_data.bands["mid"]
  /\ daemon.event_data.bands["sub_bass"] < daemon.event_data.bands["bass"]
  /\ daemon.event_data.frequency = 150
  /\ daemon.event_data.amplitude = daemon.event_data.bands["total"]
  /\ daemon.event_data.amplitude > daemon.event_data.bands["bass"]
  /\ published[1] # published[2]

\* the daemon holds a full frame it has read
HoldsFrame == daemon.pc \in {"analyze", "send_event", "write_event", "write_event_legacy"}

\* total below 0.10 and every named band, so the greatest, below 0.15
IsQuiet(bands) ==
  /\ bands["total"] < Hundredths(10)
  /\ \A k \in BandKeys : bands[k] < Hundredths(15)

C23_PublishedEventCarriesTimestamp ==
  daemon.pc \in {"write_event", "write_event_legacy"} =>
    "timestamp" \in DOMAIN daemon.event_data

\* C24: the frame the daemon analyses or sends is never a short one; the
\* step that reads a short frame ends the loop and changes nothing else;
\* and once the loop has ended the daemon takes no further step, so the
\* frame is not read again and nothing is published after it.
C24_ShortFrameEndsTheLoop ==
  /\ [](HoldsFrame => ~IsShort(daemon.frame))
  /\ [](daemon.pc = "stopped" =>
         /\ IsShort(daemon.frame)
         /\ daemon.bands = NoBands
         /\ daemon.event_data = NoEventData
         /\ pub.pc = "idle")
  /\ [][/\ daemon.pc # "stopped"
        /\ (daemon.pc = "read" /\ pub.born /\ IsShort(daemon'.frame)) =>
             /\ daemon'.pc = "stopped"
             /\ UNCHANGED <<hdr, payload, pub, published, legacy>>]_vars

\* the loop has ended on a frame one sample short, after a frame that was
\* published to the region
C24_Witness ==
  /\ daemon.pc = "stopped"
  /\ Len(daemon.frame) = Len(BinFreqs) - 1
  /\ daemon.nframes = 2
  /\ Len(published) = 1
  /\ hdr.seq = 1

\* the step with which send_event returns after it has built an event
EndsSend ==
  /\ daemon.pc \in {"write_event", "write_event_legacy"}
  /\ daemon'.pc = "read"

\* C32: when send_event returns after building an event, the event is in
\* exactly one transport: if the region is available and write_event
\* returned True, the region holds it as the next frame and the fallback
\* file is as it was; otherwise the region is as it was and the fallback
\* file holds the event - or, when the file could not be written, is as it
\* was too.
C32_ExactlyOneTransport ==
  [][EndsSend =>
       LET before == daemon.before
           body == Encode(daemon.event_data)
           to_region ==
             /\ published' = Append(SubSeq(published, 1, before.npub), body)
             /\ hdr' = NewHeader(before.hdr.seq + 1, Len(Serialize(body)))
             /\ payload' = PayloadAfterWrite(before.payload, Serialize(body))
           region_untouched ==
             /\ hdr' = before.hdr
             /\ payload' = before.payload
             /\ Len(published') = before.npub
           to_file ==
             legacy' = [exists |-> TRUE, event |-> body,
                        mtime |-> before.legacy.mtime + 1]
           file_untouched == legacy' = before.legacy
       IN IF pub.avail /\ pub.wret = "True"
          THEN to_region /\ file_untouched /\ daemon'.outcome = "region"
          ELSE /\ region_untouched
               /\ \/ to_file /\ daemon'.outcome = "file"
                  \/ file_untouched /\ daemon'.outcome = "lost"]_vars

\* the daemon without a region has put its second event into the fallback
\* file and nothing into the region
C32_Witness ==
  /\ daemon.outcome = "file"
  /\ daemon.pc = "read"
  /\ ~pub.avail
  /\ legacy.exists
  /\ legacy.mtime = 2
  /\ hdr = ZeroHeader
  /\ published = <<>>

\* the step that ends the loop's iteration over a full frame
EndsIteration ==
  /\ HoldsFrame
  /\ daemon'.pc = "read"

\* total > 0.05 and not (total < 0.10 and dominant band value < 0.15), for
\* values counted in 1/Scale and rounded down
Publishable(bands) ==
  /\ bands["total"] >= Hundredths(5)
  /\ \/ bands["total"] >= Hundredths(10)
     \/ \E k \in BandKeys : bands[k] >= Hundredths(15)

MaxRenderFrames == 3

\* 1.0; 60 = Scale * 3 serves the band values and the mean of three bands,
\* each frame's tick and decay divide by 4 once more
OscUnit == 60 * 4^(MaxRenderFrames + 1)

\* smooth_factor, rgb_decay (quarters) and intensity (halves) within the
\* ranges of CONFIG_SCHEMA (aether.py:25-27)
SmoothFactors == {1, 2, 3}

RgbDecays == {2, 3}

Intensities == {1, 2, 4}

\* a band value of an event, counted in 1/Scale, in 1/OscUnit
OfBand(v) == v * (OscUnit \div Scale)

MakeBands(sub_bass, bass, low_mid, mid, high_mid, treble, sparkle, total) ==
  [k \in BandKeys \cup {"total"} |->
     CASE k = "sub_bass" -> sub_bass
       [] k = "bass" -> bass
       [] k = "low_mid" -> low_mid
       [] k = "mid" -> mid
       [] k = "high_mid" -> high_mid
       [] k = "treble" -> treble
       [] k = "sparkle" -> sparkle
       [] OTHER -> total]

\* a loud bass event, a mid-range event and a faint treble event
RenderEvents ==
  {MakeBands(20, 12, 0, 0, 0, 0, 0, 16),
   MakeBands(0, 2, 6, 12, 6, 4, 0, 10),
   MakeBands(0, 0, 0, 0, 0, 3, 1, 2)}

\* the step passes the target by as much as it should approach it
SmoothStepOvershoots(current, target, smooth_factor) ==
  current + ((target - current) * (4 + smooth_factor)) \div 4

\* current += (target - current) * self.smooth_factor
SmoothStep(current, target, smooth_factor) ==
  current + ((target - current) * smooth_factor) \div 4

\* target *= self.rgb_decay
DecayStep(target, rgb_decay) == (target * rgb_decay) \div 4

\* min(1.0, self.target_amp * self.intensity)
BoostedTarget(target_amp, intensity) == Min(OscUnit, (target_amp * intensity) \div 2)

\* the mean of the two low bands times intensity, without the cap at 1.0
TargetBassUncapped(bands, intensity) ==
  (OfBand(bands["sub_bass"] + bands["bass"]) * intensity) \div 4

\* update_rgb_levels_from_bands (aether.py:917-928)
TargetBass(bands, intensity) ==
  Min(OscUnit, (OfBand(bands["sub_bass"] + bands["bass"]) * intensity) \div 4)

TargetMid(bands, intensity) ==
  Min(OscUnit, (OfBand(bands["low_mid"] + bands["mid"] + bands["high_mid"]) * intensity) \div 6)

TargetTreble(bands, intensity) ==
  Min(OscUnit, (OfBand(bands["treble"] + bands["sparkle"]) * intensity) \div 4)

\* add_wave_from_bands: max(0.0, min(1.0, amplitude)) of the dominant band
TargetAmp(bands) == Max(0, Min(OscUnit, OfBand(bands[max_band(bands)])))

\* the settings are those of the configuration in force
InitOsc ==
  /\ hdr = ZeroHeader
  /\ payload = ZeroPayload
  /\ pub = PubInit
  /\ sub = [s \in Subs |-> SubInit]
  /\ ret = [s \in Subs |-> RetInit]
  /\ published = <<>>
  /\ shm_exists = TRUE
  /\ legacy = NoFile
  /\ lret = [s \in Subs |-> NoLegacy]
  /\ con = [c \in Subs |-> ConInit]
  /\ daemon = DaemonInit
  /\ rgb = RgbInit
  /\ \E sf \in SmoothFactors, d \in RgbDecays, i \in Intensities :
       osc = [OscInit EXCEPT !.smooth_factor = sf, !.rgb_decay = d, !.intensity = i]

\* check_for_events found an audio event with bands (aether.py:763-771)
OscPollEvent(bands) ==
  /\ osc.pc = "poll"
  /\ osc.frames < MaxRenderFrames
  /\ osc' = [osc EXCEPT !.pc = "tick",
                        !.frames = osc.frames + 1,
                        !.event = bands,
                        !.target_amp = TargetAmp(bands),
                        !.target_bass = TargetBass(bands, osc.intensity),
                        !.target_mid = TargetMid(bands, osc.intensity),
                        !.target_treble = TargetTreble(bands, osc.intensity)]
  /\ UNCHANGED <<hdr, payload, pub, sub, ret, published, shm_exists, legacy, lret, con, daemon, rgb>>

\* check_for_events found nothing (aether.py:742-762)
OscPollNothing ==
  /\ osc.pc = "poll"
  /\ osc.frames < MaxRenderFrames
  /\ osc' = [osc EXCEPT !.pc = "tick", !.frames = osc.frames + 1, !.event = NoBands]
  /\ UNCHANGED <<hdr, payload, pub, sub, ret, published, shm_exists, legacy, lret, con, daemon, rgb>>

\* add_scroll_sample (aether.py:859-893)
OscTick ==
  /\ osc.pc = "tick"
  /\ osc' = [osc EXCEPT
       !.pc = "decay",
       !.smooth_amp = SmoothStep(osc.smooth_amp,
                                 BoostedTarget(osc.target_amp, osc.intensity),
                                 osc.smooth_factor),
       !.bass_level = SmoothStep(osc.bass_level, osc.target_bass, osc.smooth_factor),
       !.mid_level = SmoothStep(osc.mid_level, osc.target_mid, osc.smooth_factor),
       !.treble_level = SmoothStep(osc.treble_level, osc.target_treble, osc.smooth_factor)]
  /\ UNCHANGED <<hdr, payload, pub, sub, ret, published, shm_exists, legacy, lret, con, daemon, rgb>>

\* decay is skipped in a frame that brought an event
OscDecayOnlyWhenIdle ==
  /\ osc.pc = "decay"
  /\ IF osc.event = NoBands
     THEN osc' = [osc EXCEPT
            !.pc = "poll",
            !.target_bass = DecayStep(osc.target_bass, osc.rgb_decay),
            !.target_mid = DecayStep(osc.target_mid, osc.rgb_decay),
            !.target_treble = DecayStep(osc.target_treble, osc.rgb_decay)]
     ELSE osc' = [osc EXCEPT !.pc = "poll"]
  /\ UNCHANGED <<hdr, payload, pub, sub, ret, published, shm_exists, legacy, lret, con, daemon, rgb>>

\* decay_all (aether.py:930-957): the three targets are multiplied by
\* rgb_decay; target_amp is not touched
OscDecay ==
  /\ osc.pc = "decay"
  /\ osc' = [osc EXCEPT
       !.pc = "poll",
       !.target_bass = DecayStep(osc.target_bass, osc.rgb_decay),
       !.target_mid = DecayStep(osc.target_mid, osc.rgb_decay),
       !.target_treble = DecayStep(osc.target_treble, osc.rgb_decay)]
  /\ UNCHANGED <<hdr, payload, pub, sub, ret, published, shm_exists, legacy, lret, con, daemon, rgb>>

NextOsc ==
  \/ \E bands \in RenderEvents : OscPollEvent(bands)
  \/ OscPollNothing
  \/ OscTick
  \/ OscDecay

SpecOsc == InitOsc /\ [][NextOsc]_vars

\* every value is a whole number of 1/OscUnit steps: no step has rounded
OscExact ==
  /\ osc.pc = "decay" =>
       \A q \in {osc.target_bass, osc.target_mid, osc.target_treble} : q % 4 = 0
  /\ osc.pc = "tick" =>
       /\ (osc.target_amp * osc.intensity) % 2 = 0
       /\ \A q \in {BoostedTarget(osc.target_amp, osc.intensity) - osc.smooth_amp,
                    osc.target_bass - osc.bass_level,
                    osc.target_mid - osc.mid_level,
                    osc.target_treble - osc.treble_level} : q % 4 = 0

\* new lies between current and target, and its gap to the target is
\* (1 - smooth_factor) times the gap of current
Approaches(current, target, new, smooth_factor) ==
  /\ current <= target => (current <= new /\ new <= target)
  /\ current >= target => (target <= new /\ new <= current)
  /\ (target - new) * 4 = (target - current) * (4 - smooth_factor)

MaxIdleFrames == 30

TARGET_FPS == 30

\* int(0.1 * self.TARGET_FPS)
silence_threshold_frames == TARGET_FPS \div 10

\* min(255, int(255 * total * self.BRIGHTNESS_BOOST)), BRIGHTNESS_BOOST 2.5
Brightness(total) == Min(255, (255 * total * 25) \div (10 * Scale))

\* the product is rounded up
DecayColourRoundsUp(c) == (c * 85 + 99) \div 100

\* int(c * decay), DECAY_FACTOR 0.85
DecayColour(c) == (c * 85) \div 100

\* (int(r * decay), int(g * decay), int(b * decay))
DecayColours(color) == [i \in DOMAIN color |-> DecayColour(color[i])]

\* check_for_events processed an audio event with bands
\* (aether_rgb.py:304-363, 285-297)
RgbPollEvent(bands) ==
  /\ rgb.pc = "poll"
  /\ LET brightness == Brightness(bands["total"])
     IN rgb' = [rgb EXCEPT !.pc = "count",
                           !.got_new_event = TRUE,
                           !.mouse_color = <<brightness, brightness, brightness>>,
                           !.brightness = brightness,
                           !.decays = 0]
  /\ UNCHANGED <<hdr, payload, pub, sub, ret, published, shm_exists, legacy, lret, con, daemon, osc>>

\* check_for_events found nothing to process
RgbPollNothing ==
  /\ rgb.pc = "poll"
  /\ rgb.frames_without_event < MaxIdleFrames
  /\ rgb' = [rgb EXCEPT !.pc = "count", !.got_new_event = FALSE]
  /\ UNCHANGED <<hdr, payload, pub, sub, ret, published, shm_exists, legacy, lret, con, daemon, osc>>

\* the fade starts one frame early
RgbCountFadesEarly ==
  /\ rgb.pc = "count"
  /\ IF rgb.got_new_event
     THEN rgb' = [rgb EXCEPT !.pc = "poll", !.frames_without_event = 0]
     ELSE IF rgb.frames_without_event + 1 >= silence_threshold_frames
          THEN rgb' = [rgb EXCEPT !.pc = "poll",
                                  !.frames_without_event = rgb.frames_without_event + 1,
                                  !.mouse_color = DecayColours(rgb.mouse_color),
                                  !.decays = rgb.decays + 1]
          ELSE rgb' = [rgb EXCEPT !.pc = "poll",
                                  !.frames_without_event = rgb.frames_without_event + 1]
  /\ UNCHANGED <<hdr, payload, pub, sub, ret, published, shm_exists, legacy, lret, con, daemon, osc>>

\* the loop body after the poll (aether_rgb.py:437-444) with decay_wave
\* (aether_rgb.py:365-407)
RgbCount ==
  /\ rgb.pc = "count"
  /\ IF rgb.got_new_event
     THEN rgb' = [rgb EXCEPT !.pc = "poll", !.frames_without_event = 0]
     ELSE IF rgb.frames_without_event + 1 > silence_threshold_frames
          THEN rgb' = [rgb EXCEPT !.pc = "poll",
                                  !.frames_without_event = rgb.frames_without_event + 1,
                                  !.mouse_color = DecayColours(rgb.mouse_color),
                                  !.decays = rgb.decays + 1]
          ELSE rgb' = [rgb EXCEPT !.pc = "poll",
                                  !.frames_without_event = rgb.frames_without_event + 1]
  /\ UNCHANGED <<hdr, payload, pub, sub, ret, published, shm_exists, legacy, lret, con, daemon, osc>>

NextRgb ==
  \/ \E bands \in RenderEvents : RgbPollEvent(bands)
  \/ RgbPollNothing
  \/ RgbCount

SpecRgb == InitLife /\ [][NextRgb]_vars

\* C28: in the part of a frame that follows the poll, a processed event
\* resets the count of event-free frames to 0 and leaves the colours alone;
\* without one the count goes up by one and the colours are faded exactly
\* when the count, this frame included, is then more than 3.
C28_DecayOnlyAfterSilence ==
  [][rgb.pc = "count" =>
       /\ rgb.got_new_event =>
            /\ rgb'.frames_without_event = 0
            /\ rgb'.mouse_color = rgb.mouse_color
            /\ rgb'.decays = rgb.decays
       /\ ~rgb.got_new_event =>
            /\ rgb'.frames_without_event = rgb.frames_without_event + 1
            /\ IF rgb'.frames_without_event > 3
               THEN /\ rgb'.decays = rgb.decays + 1
                    /\ rgb'.mouse_color = DecayColours(rgb.mouse_color)
               ELSE /\ rgb'.decays = rgb.decays
                    /\ rgb'.mouse_color = rgb.mouse_color]_vars

\* the fourth event-free frame after an event of full brightness has
\* ended: the colours have been faded once
C28_Witness ==
  /\ rgb.pc = "poll"
  /\ rgb.brightness = 255
  /\ rgb.frames_without_event = 4
  /\ rgb.decays = 1
  /\ rgb.mouse_color = <<216, 216, 216>>

(***************************************************************************)
(* The visualizer and the lighting controller side by side, each in its    *)
(* own render loop, the visualizer with smooth_factor 0.25 and intensity   *)
(* 1.0.                                                                    *)
(***************************************************************************)
InitFade ==
  /\ hdr = ZeroHeader
  /\ payload = ZeroPayload
  /\ pub = PubInit
  /\ sub = [s \in Subs |-> SubInit]
  /\ ret = [s \in Subs |-> RetInit]
  /\ published = <<>>
  /\ shm_exists = TRUE
  /\ legacy = NoFile
  /\ lret = [s \in Subs |-> NoLegacy]
  /\ con = [c \in Subs |-> ConInit]
  /\ daemon = DaemonInit
  /\ rgb = RgbInit
  /\ \E d \in RgbDecays : osc = [OscInit EXCEPT !.rgb_decay = d]

NextFade == NextOsc \/ NextRgb

SpecFade == InitFade /\ [][NextFade]_vars

\* the most fades that take a colour component of 0..255 to 0
FadesToZero == 26

\* C26: decay_all leaves each of the visualizer's targets at least 0, never
\* larger, and smaller when it was positive; decay_wave leaves each colour
\* component in 0..255, never larger, and smaller when it was positive,
\* so that it is exactly 0 after at most 26 fades in a row.
C26_DecayShrinksToZero ==
  /\ [][(osc.pc = "decay" /\ osc'.pc = "poll") =>
          \A t \in {"target_bass", "target_mid", "target_treble"} :
            /\ osc'[t] >= 0
            /\ osc'[t] <= osc[t]
            /\ osc[t] > 0 => osc'[t] < osc[t]]_vars
  /\ [][rgb'.decays = rgb.decays + 1 =>
          \A i \in 1..3 :
            /\ rgb'.mouse_color[i] \in 0..255
            /\ rgb'.mouse_color[i] <= rgb.mouse_color[i]
            /\ rgb.mouse_color[i] > 0 => rgb'.mouse_color[i] < rgb.mouse_color[i]]_vars
  /\ [](rgb.decays >= FadesToZero => rgb.mouse_color = <<0, 0, 0>>)
  /\ [](\A i \in 1..3 : rgb.mouse_color[i] \in 0..255)
  /\ [](osc.target_bass >= 0 /\ osc.target_mid >= 0 /\ osc.target_treble >= 0)

\* the lighting controller has faded full brightness to nothing in 26
\* fades, and the visualizer has decayed a positive target in every frame
\* since the event that set it
C26_Witness ==
  /\ rgb.brightness = 255
  /\ rgb.decays = FadesToZero
  /\ rgb.mouse_color = <<0, 0, 0>>
  /\ osc.frames = 3
  /\ osc.pc = "poll"
  /\ osc.event = NoBands
  /\ osc.target_bass > 0
  /\ osc.target_bass < TargetBass(MakeBands(20, 12, 0, 0, 0, 0, 0, 16), osc.intensity)

\* C27: in a frame without an event decay_all lowers every positive target,
\* the amplitude target included.  decay_all does not touch target_amp
\* (aether.py:955-957), so this fails in the first event-free frame after
\* an event, and smooth_amp keeps approaching the last event's amplitude.
C27_EveryTargetDecaysWhenIdle ==
  [][(osc.pc = "decay" /\ osc'.pc = "poll" /\ osc.event = NoBands) =>
       \A t \in {"target_amp", "target_bass", "target_mid", "target_treble"} :
         osc[t] > 0 => osc'[t] < osc[t]]_vars

\* the part of C27 that the code has: the low, mid and high targets decay
\* in every frame
C27_BandTargetsDecay ==
  [][(osc.pc = "decay" /\ osc'.pc = "poll") =>
       \A t \in {"target_bass", "target_mid", "target_treble"} :
         osc[t] > 0 => osc'[t] < osc[t]]_vars

\* what happens instead: without events the amplitude target stays and
\* the displayed amplitude never falls below the lower of its value and
\* the boosted target, so it does not return to silence
C27_AmplitudeStaysUp ==
  [][osc'.event = NoBands =>
       /\ osc'.target_amp = osc.target_amp
       /\ osc'.smooth_amp >=
            Min(osc.smooth_amp, BoostedTarget(osc.target_amp, osc.intensity))]_vars

\* C30: a frame is one poll, then one tick, then one decay.  The poll moves
\* no displayed value; the tick changes no target and, in a frame with an
\* event, works with the targets the event has just set; the decay is
\* applied to the three band targets in every frame, with or without an
\* event, and moves no displayed value.
C30_PollTickDecayEveryFrame ==
  [][/\ osc.pc = "poll" =>
          /\ osc'.pc = "tick"
          /\ osc'.frames = osc.frames + 1
          /\ <<osc'.smooth_amp, osc'.bass_level, osc'.mid_level, osc'.treble_level>>
               = <<osc.smooth_amp, osc.bass_level, osc.mid_level, osc.treble_level>>
     /\ osc.pc = "tick" =>
          /\ osc'.pc = "decay"
          /\ osc'.frames = osc.frames
          /\ <<osc'.target_amp, osc'.target_bass, osc'.target_mid, osc'.target_treble>>
               = <<osc.target_amp, osc.target_bass, osc.target_mid, osc.target_treble>>
          /\ osc.event # NoBands =>
               /\ osc'.bass_level =
                    SmoothStep(osc.bass_level, TargetBass(osc.event, osc.intensity),
                               osc.smooth_factor)
               /\ osc'.mid_level =
                    SmoothStep(osc.mid_level, TargetMid(osc.event, osc.intensity),
                               osc.smooth_factor)
               /\ osc'.treble_level =
                    SmoothStep(osc.treble_level, TargetTreble(osc.event, osc.intensity),
                               osc.smooth_factor)
               /\ osc'.smooth_amp =
                    SmoothStep(osc.smooth_amp,
                               BoostedTarget(TargetAmp(osc.event), osc.intensity),
                               osc.smooth_factor)
     /\ osc.pc = "decay" =>
          /\ osc'.pc = "poll"
          /\ osc'.frames = osc.frames
          /\ osc'.target_bass = DecayStep(osc.target_bass, osc.rgb_decay)
          /\ osc'.target_mid = DecayStep(osc.target_mid, osc.rgb_decay)
          /\ osc'.target_treble = DecayStep(osc.target_treble, osc.rgb_decay)
          /\ <<osc'.smooth_amp, osc'.bass_level, osc'.mid_level, osc'.treble_level>>
               = <<osc.smooth_amp, osc.bass_level, osc.mid_level, osc.treble_level>>]_vars

\* a second frame, one with an event, has ended: its tick took the bass
\* level from where the first frame's event had left it toward the new
\* undecayed target, and its decay has lowered that target
C30_Witness ==
  /\ osc.pc = "poll"
  /\ osc.frames = 2
  /\ osc.event # NoBands
  /\ osc.target_bass > 0
  /\ osc.target_bass = DecayStep(TargetBass(osc.event, osc.intensity), osc.rgb_decay)
  /\ osc.bass_level > TargetBass(osc.event, osc.intensity)

(***************************************************************************)
(* AetherClient (aether_client.py:56-109), the query facade for other      *)
(* programs: every get_bands, and so every get_band and get_total_energy,  *)
(* polls the region once with read_event.  The daemon publishes events as  *)
(* send_event builds them; the client decodes what read_event returns.     *)
(* con[Client].call holds the query in progress with the sequence numbers  *)
(* the client and the header had when it began.                            *)
(***************************************************************************)
MaxClientPublishes == 2

Client == "s1"

\* the events the daemon publishes
ClientEvents == {EventData(bands) : bands \in RenderEvents}

\* json.loads of a body json.dumps gave one of the daemon's events
Decode(body) == CHOOSE event_data \in ClientEvents : Encode(event_data) = body

\* the band names asked for: two bands and a name that is no band
ClientBandNames == {"bass", "sparkle", "loudness"}

ClientQueries ==
  {[op |-> "get_bands", band_name |-> ""], [op |-> "get_total_energy", band_name |-> ""]}
    \cup {[op |-> "get_band", band_name |-> n] : n \in ClientBandNames}

\* bands.get(band_name, 0.0)
BandsGet(bands, band_name) == IF band_name \in DOMAIN bands THEN bands[band_name] ELSE 0

ReplyNone == [kind |-> "None", bands |-> NoBands, value |-> 0]

ReplyBands(bands) == [kind |-> "bands", bands |-> bands, value |-> 0]

ReplyValue(v) == [kind |-> "value", bands |-> NoBands, value |-> v]

\* a query begins: get_bands calls self.shm.read_event() (aether_client.py:81)
ClientCall(c, q) ==
  /\ sub[c].born
  /\ sub[c].pc = "idle"
  /\ con[c].pc = "idle"
  /\ con' = [con EXCEPT ![c] = [@ EXCEPT !.pc = "client",
                                         !.call = [op |-> q.op, band_name |-> q.band_name,
                                                   seq0 |-> sub[c].last_sequence,
                                                   hdr0 |-> hdr.seq]]]
  /\ ret' = [ret EXCEPT ![c] = Pending]
  /\ UNCHANGED <<hdr, payload, pub, sub, published, shm_exists, legacy, lret, daemon, osc, rgb>>

\* the call of read_event
ClientReadEvent(c) ==
  /\ con[c].pc = "client"
  /\ ret[c] = Pending
  /\ ReadHeader(c)

\* the query answers from the event of the last successful poll when this
\* poll brought none
ClientReturnCached(c) ==
  /\ con[c].pc = "client"
  /\ sub[c].pc = "idle"
  /\ ret[c] # Pending
  /\ LET fresh == ret[c].kind = "event" /\ ret[c].event # NoEvent
                    /\ "bands" \in DOMAIN Decode(ret[c].event)
         last == IF fresh THEN Decode(ret[c].event) ELSE con[c].last_event
         bands == IF last # NoEventData THEN last.bands ELSE NoBands
         reply == CASE con[c].call.op = "get_bands" ->
                         IF bands # NoBands THEN ReplyBands(bands) ELSE ReplyNone
                    [] con[c].call.op = "get_band" ->
                         ReplyValue(IF bands # NoBands
                                    THEN BandsGet(bands, con[c].call.band_name) ELSE 0)
                    [] OTHER ->
                         ReplyValue(IF bands # NoBands THEN BandsGet(bands, "total") ELSE 0)
     IN con' = [con EXCEPT ![c] = [@ EXCEPT !.pc = "idle", !.reply = reply,
                                            !.last_event = last]]
  /\ UNCHANGED <<hdr, payload, pub, sub, ret, published, shm_exists, legacy, lret, daemon, osc, rgb>>

\* get_bands after read_event has returned, and get_band and
\* get_total_energy on its result (aether_client.py:82-103)
ClientReturn(c) ==
  /\ con[c].pc = "client"
  /\ sub[c].pc = "idle"
  /\ ret[c] # Pending
  /\ LET fresh == ret[c].kind = "event" /\ ret[c].event # NoEvent
                    /\ "bands" \in DOMAIN Decode(ret[c].event)
         last == IF fresh THEN Decode(ret[c].event) ELSE con[c].last_event
         bands == IF fresh THEN Decode(ret[c].event).bands ELSE NoBands
         reply == CASE con[c].call.op = "get_bands" ->
                         IF fresh THEN ReplyBands(bands) ELSE ReplyNone
                    [] con[c].call.op = "get_band" ->
                         ReplyValue(IF fresh THEN BandsGet(bands, con[c].call.band_name)
                                             ELSE 0)
                    [] OTHER ->
                         ReplyValue(IF fresh THEN BandsGet(bands, "total") ELSE 0)
     IN con' = [con EXCEPT ![c] = [@ EXCEPT !.pc = "idle", !.reply = reply,
                                            !.last_event = last]]
  /\ UNCHANGED <<hdr, payload, pub, sub, ret, published, shm_exists, legacy, lret, daemon, osc, rgb>>

\* send_event's write_event with the region available
ClientPublish(event_data) ==
  /\ pub.last_sequence < MaxClientPublishes
  /\ WritePayload(Encode(event_data))

NextClient ==
  \/ \E event_data \in ClientEvents : ClientPublish(event_data)
  \/ WriteHeader
  \/ \E q \in ClientQueries : ClientCall(Client, q)
  \/ ClientReadEvent(Client)
  \/ ReadData(Client)
  \/ ReadSeq2(Client)
  \/ ClientReturn(Client)

SpecClient == Init /\ [][NextClient]_vars

\* the answer a query gives when its poll brought the event of this body
ValueOf(call, body) ==
  CASE call.op = "get_bands" -> ReplyBands(Decode(body).bands)
    [] call.op = "get_band" ->
         ReplyValue(IF call.band_name \in BandKeys \cup {"total"}
                    THEN Decode(body).bands[call.band_name] ELSE 0)
    [] OTHER -> ReplyValue(Decode(body).bands["total"])

\* the answer of a query without data: None from get_bands, 0.0 otherwise
Empty(call) == IF call.op = "get_bands" THEN ReplyNone ELSE ReplyValue(0)

\* C29: a query answers with the named value of the event its own poll has
\* just read, a published one that the client had not consumed before, and
\* with 0.0 (get_bands: None) when the poll brought none; a query that
\* begins with every committed frame already consumed and ends with no
\* further frame committed answers 0.0 (None).
C29_QueryAnswersOnlyFromItsOwnPoll ==
  [][(con[Client].pc = "client" /\ con'[Client].pc = "idle") =>
       LET call == con[Client].call
           r == ret[Client]
           reply == con'[Client].reply
       IN /\ r.kind = "event" =>
               /\ reply = ValueOf(call, r.event)
               /\ \E i \in 1..Len(published) : published[i] = r.event
               /\ sub[Client].last_sequence > call.seq0
          /\ r.kind # "event" => reply = Empty(call)
          /\ (call.hdr0 <= call.seq0 /\ hdr.seq = call.hdr0) =>
               reply = Empty(call)]_vars

\* the one event published was consumed by an earlier query, which is why
\* the client holds it as its last event, and a later get_total_energy,
\* begun and ended with nothing new committed, has answered 0.0
C29_Witness ==
  /\ con[Client].pc = "idle"
  /\ con[Client].call.op = "get_total_energy"
  /\ con[Client].reply = ReplyValue(0)
  /\ con[Client].last_event # NoEventData
  /\ con[Client].last_event.bands["total"] > 0
  /\ con[Client].call.seq0 = 1
  /\ con[Client].call.hdr0 = 1
  /\ hdr.seq = 1
  /\ Len(published) = 1

(***************************************************************************)
(* The daemon is started again while a subscriber stays attached: a new    *)
(* writer-role object opens the same file with O_TRUNC, extends it, maps   *)
(* it and counts from 0 (aether_shm.py:79, 88-94, 103).  The subscriber's  *)
(* mapping is of the same file: between the truncation and the extension   *)
(* the file has no pages and a read of the mapping ends the subscriber's   *)
(* process with SIGBUS; after the extension the region is all zero bytes.  *)
(* The old daemon may have stopped between the two writes of a publish.    *)
(* The first publisher publishes the event "a", every later one "b".       *)
(***************************************************************************)
\* publisher objects after the first
MaxRestarts == 1
\* write_event calls explored in each publisher's lifetime
MaxRestartPublishes == 2

\* the subscriber that stays attached
Attached == "s1"

\* the event the publisher of generation gen publishes
GenEvent(gen) == IF gen = 1 THEN <<"a">> ELSE <<"b">>

PublishGen ==
  /\ pub.last_sequence < MaxRestartPublishes
  /\ WritePayload(GenEvent(pub.gen))

\* AetherSharedMemory(is_writer=True) in a new daemon process: __init__ and
\* os.open(..., O_RDWR | O_CREAT | O_TRUNC) (aether_shm.py:77-92)
PubReopenTruncate ==
  /\ pub.born
  /\ pub.pc \in {"idle", "write_header"}
  /\ pub.gen <= MaxRestarts
  /\ pub' = [PubInit EXCEPT !.avail = FALSE, !.pc = "init_shm", !.gen = pub.gen + 1]
  /\ hdr' = ZeroHeader
  /\ payload' = ZeroPayload
  /\ published' = <<>>
  /\ shm_exists' = TRUE
  /\ sub' = [s \in Subs |-> [MarkOverlap[s] EXCEPT !.at_restart = sub[s].last_sequence]]
  /\ UNCHANGED <<ret, legacy, lret, con, daemon, osc, rgb>>

\* os.ftruncate(self._fd, SHM_SIZE) and mmap.mmap (aether_shm.py:94, 103)
PubReopenExtend ==
  /\ pub.pc = "init_shm"
  /\ pub' = [pub EXCEPT !.avail = TRUE, !.pc = "idle"]
  /\ UNCHANGED <<hdr, payload, sub, ret, published, shm_exists, legacy, lret, con, daemon, osc, rgb>>

\* the file has pages to read
Mapped == pub.pc # "init_shm"

\* self._mm.read while the file is truncated: SIGBUS, the process ends
ReadFaults(s) ==
  /\ ~Mapped
  /\ sub[s].born
  /\ sub[s].avail
  /\ sub[s].pc \in {"idle", "read_data", "read_seq2"}
  /\ sub' = [sub EXCEPT ![s].pc = "killed"]
  /\ UNCHANGED <<hdr, payload, pub, ret, published, shm_exists, legacy, lret, con, daemon, osc, rgb>>

NextRestart ==
  \/ PublishGen
  \/ WriteHeader
  \/ PubReopenTruncate
  \/ PubReopenExtend
  \/ Mapped /\ ReadHeader(Attached)
  \/ Mapped /\ ReadData(Attached)
  \/ Mapped /\ ReadSeq2(Attached)
  \/ ReadFaults(Attached)

SpecRestart == Init /\ [][NextRestart]_vars

\* read_event of the attached subscriber returns an event with this step
ReturnsEvent ==
  /\ sub[Attached].pc = "read_seq2"
  /\ sub'[Attached].pc = "idle"
  /\ ret'[Attached].kind = "event"

\* C34: a new publisher object starts with counter 0 on a zeroed region,
\* so its first committed frame has sequence 1; the attached subscriber's
\* last_sequence never goes down; every event it returns after the restart
\* has a sequence greater than S, its last_sequence at the restart; and it
\* returns an event of the new publisher only when the new publisher's
\* counter exceeds S.
C34_RestartedPublisherIsSkippedUpToS ==
  /\ [](pub.gen > 1 => /\ hdr.seq <= pub.last_sequence
                       /\ pub.last_sequence <= Len(published) + 1)
  /\ [][/\ pub'.gen # pub.gen
           => pub'.last_sequence = 0 /\ hdr'.seq = 0
        /\ (pub.gen > 1 /\ hdr.seq = 0 /\ hdr'.seq # 0) => hdr'.seq = 1
        /\ sub'[Attached].last_sequence >= sub[Attached].last_sequence
        /\ ReturnsEvent
           => /\ sub'[Attached].last_sequence > sub[Attached].last_sequence
              /\ sub'[Attached].last_sequence = hdr.seq
              /\ sub'[Attached].last_sequence > sub[Attached].at_restart
              /\ ret'[Attached].event = GenEvent(2)
                   => /\ pub.last_sequence > sub[Attached].last_sequence
                      /\ pub.last_sequence > sub[Attached].at_restart]_vars

\* the subscriber had consumed frame 1 of the first publisher; the second
\* publisher's frame 1 was passed over and its frame 2 has been returned
C34_Witness ==
  /\ pub.gen = 2
  /\ published = <<GenEvent(2), GenEvent(2)>>
  /\ hdr.seq = 2
  /\ sub[Attached].at_restart = 1
  /\ sub[Attached].last_sequence = 2
  /\ ret[Attached].kind = "event"
  /\ ret[Attached].event = GenEvent(2)
  /\ ~ret[Attached].ovl

(***************************************************************************)
(* close() (aether_shm.py:233-249): the daemon's signal handler and every  *)
(* consumer's shutdown call it, and __del__ and __exit__ call it again.    *)
(* It runs between calls of read_event and write_event.  The objects are   *)
(* used on after it; nothing here calls _init_shm a second time.           *)
(***************************************************************************)
\* close() calls explored on each object
MaxCloses == 2
\* write_event calls explored before the publisher is closed
MaxClosePublishes == 2

CloseEvents == {<<"a">>, <<"b">>}

PublishOpen(e) ==
  /\ pub.last_sequence < MaxClosePublishes
  /\ WritePayload(e)

\* the descriptor is closed and the mapping is kept
CloseSubKeepsMapping(s) ==
  /\ sub[s].born
  /\ sub[s].pc = "idle"
  /\ sub[s].closed < MaxCloses
  /\ sub' = [sub EXCEPT ![s] = [@ EXCEPT !.closed = sub[s].closed + 1]]
  /\ UNCHANGED <<hdr, payload, pub, ret, published, shm_exists, legacy, lret, con, daemon, osc, rgb>>

\* close() on a reader-role object: _mm.close() and _mm = None if it is
\* set, the same for the descriptor (aether_shm.py:235-240)
CloseSub(s) ==
  /\ sub[s].born
  /\ sub[s].pc = "idle"
  /\ sub[s].closed < MaxCloses
  /\ sub' = [sub EXCEPT ![s] = [@ EXCEPT !.avail = FALSE,
                                         !.closed = sub[s].closed + 1]]
  /\ UNCHANGED <<hdr, payload, pub, ret, published, shm_exists, legacy, lret, con, daemon, osc, rgb>>

\* close() on the writer-role object (aether_daemon.py:117-118)
ClosePub ==
  /\ pub.born
  /\ pub.pc = "idle"
  /\ pub.closed < MaxCloses
  /\ pub' = [pub EXCEPT !.avail = FALSE, !.closed = pub.closed + 1]
  /\ UNCHANGED <<hdr, payload, sub, ret, published, shm_exists, legacy, lret, con, daemon, osc, rgb>>

NextClose ==
  \/ \E e \in CloseEvents : PublishOpen(e)
  \/ WriteHeader
  \/ \E e \in CloseEvents : WriteFail(e)
  \/ ClosePub
  \/ \E s \in Subs : CloseSub(s)
  \/ \E s \in Subs : ReadHeader(s)
  \/ \E s \in Subs : ReadData(s)
  \/ \E s \in Subs : ReadSeq2(s)

SpecClose == Init /\ [][NextClose]_vars

\* C38: once close() has been called on an object, is_available() is
\* false; every read_event call returns None and every write_event call
\* returns False, each in one step that changes neither the object's
\* last_sequence nor the region; and a further close() changes nothing
\* but the number of calls.
C38_CloseIsFinal ==
  /\ [](\A s \in Subs : sub[s].closed >= 1 => ~sub[s].avail /\ sub[s].pc = "idle")
  /\ [](pub.closed >= 1 => ~pub.avail /\ pub.pc = "idle")
  /\ [][/\ \A s \in Subs :
             /\ sub'[s].closed # sub[s].closed
                  => /\ sub'[s].last_sequence = sub[s].last_sequence
                     /\ ret'[s] = ret[s]
                     /\ sub[s].closed >= 1
                          => sub'[s] = [sub[s] EXCEPT !.closed = sub[s].closed + 1]
             /\ sub[s].closed >= 1
                  => /\ sub'[s].last_sequence = sub[s].last_sequence
                     /\ ret'[s] # ret[s]
                          => ret'[s].kind = "None" /\ ret'[s].why = "unavailable"
        /\ pub'.closed # pub.closed
             => /\ pub'.last_sequence = pub.last_sequence
                /\ pub.closed >= 1 => pub' = [pub EXCEPT !.closed = pub.closed + 1]
        /\ pub.closed >= 1
             => /\ pub'.last_sequence = pub.last_sequence
                /\ UNCHANGED <<hdr, payload, published>>
                /\ pub'.wret # pub.wret => pub'.wret = "False"]_vars

\* a subscriber that had consumed frame 1 was closed twice and has then
\* polled, with frame 2 committed, and got None; the publisher was closed
\* and its next write_event returned False
C38_Witness ==
  \E s \in Subs :
    /\ sub[s].closed = 2
    /\ sub[s].last_sequence = 1
    /\ hdr.seq = 2
    /\ ret[s].kind = "None"
    /\ ret[s].why = "unavailable"
    /\ pub.closed >= 1
    /\ pub.last_sequence = 2
    /\ pub.wret = "False"

(***************************************************************************)
(* The visualizer's render loop with its configuration screen              *)
(* (SpecTune).  Between the tick and the decay of a frame the loop reads   *)
(* the keyboard (aether.py:1395-1423); the key c opens show_config, which  *)
(* returns with the settings changed through _set_config_value             *)
(* (aether.py:175-184), each within its range of CONFIG_SCHEMA.  Of the    *)
(* settings smooth_factor, rgb_decay and intensity enter the targets and   *)
(* the smoothed values; they take the values of SmoothFactors, RgbDecays   *)
(* and Intensities.  Events carry bands (aether.py:765-769) with values    *)
(* between 0.0 and 1.0.                                                    *)
(***************************************************************************)

MaxConfigures == 2

\* the values a setting can be left at
SettingValues(key) ==
  CASE key = "smooth_factor" -> SmoothFactors
    [] key = "rgb_decay" -> RgbDecays
    [] OTHER -> Intensities

\* the visualizer starts with the settings of __init__
InitTune ==
  /\ InitOsc
  /\ osc = OscInit

\* show_config returned (aether.py:1408-1409) with one setting changed
OscConfigure(key, value) ==
  /\ osc.pc = "decay"
  /\ osc.configs < MaxConfigures
  /\ value # osc[key]
  /\ osc' = [osc EXCEPT ![key] = value, !.configs = osc.configs + 1]
  /\ UNCHANGED <<hdr, payload, pub, sub, ret, published, shm_exists, legacy, lret, con, daemon, rgb>>

NextTune ==
  \/ \E bands \in RenderEvents : OscPollEvent(bands)
  \/ OscPollNothing
  \/ OscTick
  \/ \E key \in {"smooth_factor", "rgb_decay", "intensity"} :
       \E value \in SettingValues(key) : OscConfigure(key, value)
  \/ OscDecay

SpecTune == InitTune /\ [][NextTune]_vars

\* between 0.0 and 1.0
InUnitRange(v) == 0 <= v /\ v <= OscUnit

\* C39: after any sequence of events with band values in [0, 1], ticks,
\* decays and configuration changes, the four targets and the four smoothed
\* values of the visualizer lie in [0.0, 1.0].
C39_TargetsAndLevelsInUnitRange ==
  /\ InUnitRange(osc.target_amp)
  /\ InUnitRange(osc.target_bass)
  /\ InUnitRange(osc.target_mid)
  /\ InUnitRange(osc.target_treble)
  /\ InUnitRange(osc.smooth_amp)
  /\ InUnitRange(osc.bass_level)
  /\ InUnitRange(osc.mid_level)
  /\ InUnitRange(osc.treble_level)

\* the loud bass event arrived while the intensity was 2.0, so its bass
\* target was capped at 1.0; since then the configuration has changed, a
\* further frame without an event has ticked and decayed, and the bass
\* level is on its way: above 0.0, below 1.0
C39_Witness ==
  /\ osc.pc = "poll"
  /\ osc.frames >= 2
  /\ osc.event = NoBands
  /\ osc.configs >= 1
  /\ osc.intensity # 4
  /\ osc.target_amp = OscUnit
  /\ osc.target_bass > 0
  /\ osc.target_bass < OscUnit
  /\ osc.bass_level > osc.target_bass
  /\ osc.bass_level < OscUnit
  /\ osc.smooth_amp > 0

(***************************************************************************)
(* The configuration screen, show_config (aether.py:1175-1350)             *)
(* (SpecConfig).  The screen is modal: it handles one key after the other  *)
(* until Esc.  The arrow keys up and down move the selection over          *)
(* config_keys, so the selected setting of an action is any of them.       *)
(* Settings are counted as in CONFIG_SCHEMA above.                         *)
(***************************************************************************)
MaxKeys == 6

\* setattr(self, key, value): the range of the schema is not applied
set_config_value_unclamped(o, key, value) ==
  [o EXCEPT !.config[key] = value,
            !.RATE = IF key = "virtual_sample_rate" THEN value ELSE @]

\* _set_config_value (aether.py:175-184)
set_config_value(o, key, value) ==
  LET schema == CONFIG_SCHEMA[key]
      min_val == schema[2]
      max_val == schema[3]
      clamped == Max(min_val, Min(max_val, value))
  IN [o EXCEPT !.config[key] = clamped,
               !.RATE = IF key = "virtual_sample_rate" THEN clamped ELSE @]

\* _load_preset (aether.py:186-192): every setting of the preset goes
\* through _set_config_value
RECURSIVE load_preset(_, _, _)
load_preset(o, preset, keys) ==
  IF keys = {}
  THEN o
  ELSE LET key == CHOOSE k \in keys : TRUE
       IN load_preset(set_config_value(o, key, preset[key]), preset, keys \ {key})

\* the first frame found no event and ticked; the user pressed c
\* (aether.py:1408-1409)
InitConfig ==
  /\ hdr = ZeroHeader
  /\ payload = ZeroPayload
  /\ pub = PubInit
  /\ sub = [s \in Subs |-> SubInit]
  /\ ret = [s \in Subs |-> RetInit]
  /\ published = <<>>
  /\ shm_exists = TRUE
  /\ legacy = NoFile
  /\ lret = [s \in Subs |-> NoLegacy]
  /\ con = [c \in Subs |-> ConInit]
  /\ daemon = DaemonInit
  /\ rgb = RgbInit
  /\ osc = [OscInit EXCEPT !.pc = "config", !.frames = 1]

\* a key is handled
Handles(o, name) == [o EXCEPT !.keys = o.keys + 1, !.key = name]

\* left arrow or h (aether.py:1303-1309)
CfgStepDown(cfg_key) ==
  /\ osc.pc = "config"
  /\ osc.keys < MaxKeys
  /\ LET step == CONFIG_SCHEMA[cfg_key][4]
         current == osc.config[cfg_key]
     IN osc' = Handles(set_config_value(osc, cfg_key, current - step), "left")
  /\ UNCHANGED <<hdr, payload, pub, sub, ret, published, shm_exists, legacy, lret, con, daemon, rgb>>

\* right arrow or l (aether.py:1310-1316)
CfgStepUp(cfg_key) ==
  /\ osc.pc = "config"
  /\ osc.keys < MaxKeys
  /\ LET step == CONFIG_SCHEMA[cfg_key][4]
         current == osc.config[cfg_key]
     IN osc' = Handles(set_config_value(osc, cfg_key, current + step), "right")
  /\ UNCHANGED <<hdr, payload, pub, sub, ret, published, shm_exists, legacy, lret, con, daemon, rgb>>

\* r (aether.py:1317-1322)
CfgReset(cfg_key) ==
  /\ osc.pc = "config"
  /\ osc.keys < MaxKeys
  /\ LET default == CONFIG_SCHEMA[cfg_key][1]
     IN osc' = Handles(set_config_value(osc, cfg_key, default), "r")
  /\ UNCHANGED <<hdr, payload, pub, sub, ret, published, shm_exists, legacy, lret, con, daemon, rgb>>

\* 1, 2, 3 or 0 (aether.py:1323-1334)
CfgLoadPreset(preset_name) ==
  /\ osc.pc = "config"
  /\ osc.keys < MaxKeys
  /\ osc' = Handles(load_preset(osc, PRESETS[preset_name], config_keys), preset_name)
  /\ UNCHANGED <<hdr, payload, pub, sub, ret, published, shm_exists, legacy, lret, con, daemon, rgb>>

\* 4 (aether.py:1335-1339): the custom preset is loaded if it exists
CfgLoadCustom ==
  /\ osc.pc = "config"
  /\ osc.keys < MaxKeys
  /\ IF osc.custom # NoPreset
     THEN osc' = Handles(load_preset(osc, osc.custom, config_keys), "custom")
     ELSE osc' = Handles(osc, "4")
  /\ UNCHANGED <<hdr, payload, pub, sub, ret, published, shm_exists, legacy, lret, con, daemon, rgb>>

\* w (aether.py:1340-1346): the settings in force become the custom preset
CfgSaveCustom ==
  /\ osc.pc = "config"
  /\ osc.keys < MaxKeys
  /\ osc' = Handles([osc EXCEPT !.custom = osc.config], "w")
  /\ UNCHANGED <<hdr, payload, pub, sub, ret, published, shm_exists, legacy, lret, con, daemon, rgb>>

\* Esc (aether.py:1297-1298): back in the render loop, before decay_all
CfgClose ==
  /\ osc.pc = "config"
  /\ osc' = [osc EXCEPT !.pc = "decay"]
  /\ UNCHANGED <<hdr, payload, pub, sub, ret, published, shm_exists, legacy, lret, con, daemon, rgb>>

\* c (aether.py:1408-1409)
CfgOpen ==
  /\ osc.pc = "decay"
  /\ osc.keys < MaxKeys
  /\ osc' = [osc EXCEPT !.pc = "config"]
  /\ UNCHANGED <<hdr, payload, pub, sub, ret, published, shm_exists, legacy, lret, con, daemon, rgb>>

\* the settings the user selects for a step or a reset: one with a limit
\* off its steps, the smoothing factor, one that is a count and the one
\* RATE follows
Selected == {"waveform_decay", "smooth_factor", "samples_per_frame", "virtual_sample_rate"}

NextConfig ==
  \/ \E cfg_key \in Selected : CfgStepDown(cfg_key)
  \/ \E cfg_key \in Selected : CfgStepUp(cfg_key)
  \/ \E cfg_key \in Selected : CfgReset(cfg_key)
  \/ \E preset_name \in DOMAIN PRESETS : CfgLoadPreset(preset_name)
  \/ CfgLoadCustom
  \/ CfgSaveCustom
  \/ CfgClose
  \/ CfgOpen

SpecConfig == InitConfig /\ [][NextConfig]_vars

\* C40: after any sequence of configuration actions every setting lies
\* within [min, max] of its schema entry; in particular the smoothing
\* factor lies in [0.05, 0.8] and every decay coefficient is below 1; and
\* RATE equals virtual_sample_rate.
C40_SettingsStayInRange ==
  /\ \A key \in config_keys :
       /\ CONFIG_SCHEMA[key][2] <= osc.config[key]
       /\ osc.config[key] <= CONFIG_SCHEMA[key][3]
  /\ 50 <= osc.config["smooth_factor"]
  /\ osc.config["smooth_factor"] <= 800
  /\ \A key \in {"waveform_decay", "spectrum_decay", "rgb_decay"} :
       osc.config[key] < 1000
  /\ osc.RATE = osc.config["virtual_sample_rate"]

\* the custom preset was saved after a step up had been cut to the limit
\* of the trail length (0.999 is on no step from a preset's value) and a
\* step down to the limit of the scroll speed; the rate was stepped away
\* since, and the custom preset has just been loaded again: RATE follows it
C40_Witness ==
  /\ osc.key = "custom"
  /\ osc.custom # NoPreset
  /\ osc.config = osc.custom
  /\ osc.config["waveform_decay"] = 999
  /\ osc.config["samples_per_frame"] = 1
  /\ osc.RATE = 350
  /\ osc.keys >= 5

\* the smoothing factor has been stepped down to its limit and a further
\* step down has left it there
C40_WitnessSmoothing ==
  /\ osc.key = "left"
  /\ osc.keys = 6
  /\ osc.config["smooth_factor"] = 50
====
